---- MODULE Spec2Model ----
(***************************************************************************)
(* Model of the podsync-web update engine.                                 *)
(*                                                                         *)
(* Spec      : the per-feed update pipeline of services/update (Manager.   *)
(*             Update and the episode-scoped operations) for one feed,     *)
(*             with one run driven by the worker loop (root context) and   *)
(*             one run driven by POST /feeds/{id}/refresh (background      *)
(*             context), which the code lets overlap.                      *)
(* SpecSched : the scheduler and lifecycle of cmd/podsync/main.go: cron    *)
(*             engine, update queue, worker loop, signal handling and the  *)
(*             deferred shutdown sequence of main.                         *)
(***************************************************************************)
EXTENDS Integers, Sequences, FiniteSets, TLC

\* ------------------------------------------------------------------ bounds
\* Episode IDs of the feed are 1..NumEps; the key order of the store (and so
\* the order of WalkEpisodes) is the order of the IDs.
NumEps == 3
\* Artifact sizes in bytes are 1..MaxSize.
MaxSize == 1
\* Number of Update calls started in one behaviour.
MaxRuns == 2
\* Number of episode-scoped operations (block, delete, retry) in one behaviour.
MaxOps == 1
\* Number of Update calls in progress at the same time (the code sets no limit:
\* a manual refresh runs beside the worker's update).
MaxConcurrent == 1

Episodes == 1..NumEps
Sizes == 1..MaxSize
\* "worker": Update called by the worker loop with the root context.
\* "manual": Update called by the goroutine of RefreshFeed with context.Background().
Runs == {"worker", "manual"}

VARIABLES
    cfg,      \* feed.Config of the feed: filters, page_size, clean.keep_last
    feed,     \* the stored feed record: "absent", "full" (from the listing) or "stub"
    db,       \* episode records of the feed, by episode ID
    art,      \* artifact store: size of <feed_id>/<episode_file_name>, 0 = no such file
    xml,      \* episodes of the published feed document <feed_id>.xml
    xmlBuilds,\* number of times the feed document was written
    hist,     \* history entries in insertion order
    run,      \* per Update call in progress: position and locals
    ctxDone,  \* the root context is cancelled
    nruns,    \* Update calls started so far
    nops,     \* episode-scoped operations done so far
    locked    \* episodes whose artifact the store fails to delete (not NotExist)

\* Scheduler and lifecycle (cmd/podsync/main.go)
VARIABLES
    storageType, \* cfg.Storage.Type: "local" or "s3"
    feeds,       \* cfg.Feeds: the configured feed IDs
    cronFeeds,   \* the configured feeds that have an explicit cron_schedule
    updates,     \* the channel of feeds to update, as a sequence
    updatesClosed, \* close(updates) has run
    worker,      \* the updates listener: "recv", "update" or "done"
    workerFeed,  \* the feed the worker's Update is running for, 0 = none
    sched,       \* the cron scheduler goroutine: "add", "kick", "wait" or "done"
    schedTodo,   \* the feeds its loop has not visited yet
    schedFeed,   \* the feed of its current iteration, 0 = none
    cron,        \* the cron engine: "new", "started" or "stopped"
    cronEntries, \* the feeds with a registered cron entry
    cronJob,     \* per feed: "idle", or "sending" while its job is in updates <- feed
    manual,      \* the feeds a RefreshFeed goroutine is running Update for
    stop,        \* a signal is waiting in the stop channel
    sigHandler,  \* the signal goroutine: "none", "wait" or "done"
    web,         \* the listener goroutine: "none", "serving" or "done"
    main,        \* main: "wait" (group.Wait), "close", "closedb" or "exit"
    dbClosed,    \* database.Close() has run
    panicked,    \* a goroutine panicked: the process is gone
    enqueued     \* the sends on updates so far: the feeds sent by the scheduler
                 \* loop, in order (kicks), and the feeds a cron job has sent (ticks)

\* History store (Badger, pkg/db)
VARIABLES
    historyTable, \* history/<H>: the entry stored under history ID H, or NoEntry
    feedIndex,    \* history_feed/<F>/<H>: the index keys, as pairs <<F, H>>
    clock,        \* time.Now(), in seconds
    call,         \* the last call of the store and what it returned
    hops          \* calls of the store so far

\* Progress tracker (pkg/progress) and the downloader it is fed by (pkg/ytdl)
VARIABLES
    feedProgress,     \* Tracker.feedProgress of the feed, or NoFeedProgress
    episodeProgress,  \* Tracker.episodeProgress of the feed, by episode ID
    progressCallback, \* YoutubeDl.progressCallback: the episode it reports for, 0 = nil
    updateLock,       \* YoutubeDl.updateLock: its holder and the output of its yt-dlp
    dl,               \* per downloadEpisodes call in progress: position and locals
    reader,           \* sendProgressEvent in progress: what it has read so far
    frame,            \* the last frame a reader built
    tops              \* downloadEpisodes and RetryEpisode calls so far

\* Local artifact store (pkg/fs) and invocations of the downloader binary
VARIABLES
    file,     \* per episode, the file at <feed_id>/<episode_file_name>, or NoFile
    copy,     \* per caller of Local.Create: the copy in progress
    probed,   \* what the last artifact-exists probe found, or Nothing
    served,   \* what the file server sent last, or Nothing
    invoke,   \* per caller of the downloader: "idle", "waiting" or "running"
    requests, \* invocations of the downloader asked for so far
    quiet     \* feeds deleted through the API while nothing of theirs was pending

hvars == <<historyTable, feedIndex, clock, call, hops>>

fvars == <<file, copy, probed, served, invoke, requests, quiet>>

tvars == <<feedProgress, episodeProgress, progressCallback, updateLock, dl, reader,
           frame, tops>>

svars == <<storageType, feeds, cronFeeds, updates, updatesClosed, worker, workerFeed,
           sched, schedTodo, schedFeed, cron, cronEntries, cronJob, manual, stop,
           sigHandler, web, main, dbClosed, panicked, enqueued>>

pvars == <<cfg, feed, db, art, xml, xmlBuilds, hist, run, ctxDone, nruns, nops, locked>>

vars == <<pvars, svars, hvars, tvars, fvars>>

\* ------------------------------------------------------- episode records
NoEpisode == [status |-> "absent", size |-> 0, error |-> "", title |-> ""]
\* An episode as the listing adapter returns it.
NewEpisode == [status |-> "new", size |-> 0, error |-> "", title |-> "t"]
\* The stub BlockEpisode creates for an unknown ID.
StubEpisode == [status |-> "blocked", size |-> 0, error |-> "", title |-> ""]

\* Metadata the listing reports for an episode: duration (seconds) and
\* published timestamp are fixed per episode ID.
Duration(e) == e
PubDate(e) == e

\* db.UpdateEpisode: read-modify-write of an existing record; ErrNotFound otherwise.
UpdateEpisodeOk(d, e) == d[e].status # "absent"

\* ----------------------------------------------------------- updateFeed
blockedEpisodes(d) == {e \in Episodes : d[e].status = "blocked"}

\* updateFeed with the blocked branch of its walk dropped.
episodeSetWithBlocked(d) ==
    {e \in Episodes : d[e].status \notin {"absent", "downloaded", "cleaned"}}

episodeSet(d) ==
    {e \in Episodes : d[e].status \notin {"absent", "blocked", "downloaded", "cleaned"}}

filteredEpisodes(d, listing) == listing \ blockedEpisodes(d)

\* An AddFeed that overwrites the episodes the store already has.
AddFeedOverwrite(d, eps, rec) ==
    [e \in Episodes |-> IF e \in eps THEN rec ELSE d[e]]

\* db.AddFeed: the feed record is upserted, episodes are inserted if absent.
AddFeed(d, eps, rec) ==
    [e \in Episodes |-> IF e \in eps /\ d[e].status = "absent" THEN rec ELSE d[e]]

\* The records updateFeed deletes: pending ones the listing no longer has.
removedEpisodes(d, listing) == episodeSet(d) \ filteredEpisodes(d, listing)

updateFeed(d, listing) ==
    LET added == AddFeed(d, filteredEpisodes(d, listing), NewEpisode)
    IN  [e \in Episodes |->
            IF e \in removedEpisodes(d, listing) THEN NoEpisode ELSE added[e]]

\* -------------------------------------------------------- fetchEpisodes
\* Filter predicates of the feed; of these the model has min_duration.
matchFilters(e, filters) ==
    filters.minDuration = 0 \/ Duration(e) >= filters.minDuration

RECURSIVE walkFetch(_, _, _, _, _)
walkFetch(e, d, filters, pageSize, acc) ==
    IF e > NumEps THEN [list |-> acc, db |-> d]
    ELSE IF d[e].status = "blocked" THEN walkFetch(e + 1, d, filters, pageSize, acc)
    ELSE IF d[e].status \notin {"new", "error"}
         THEN walkFetch(e + 1, d, filters, pageSize, acc)
    ELSE IF ~matchFilters(e, filters)
         THEN walkFetch(e + 1,
                        IF d[e].status = "new"
                        THEN [d EXCEPT ![e].status = "ignored"] ELSE d,
                        filters, pageSize, acc)
    ELSE IF pageSize - 1 < 0
         THEN walkFetch(e + 1, d, filters, pageSize - 1, acc)
    ELSE walkFetch(e + 1, d, filters, pageSize - 1, Append(acc, e))

\* Returns the download list and the store with the ignored marks.
fetchEpisodes(d, c) == walkFetch(1, d, c.filters, c.pageSize, <<>>)

\* ---------------------------------------------------------- statistics
ZeroEpisodeStats == [downloaded |-> 0, failed |-> 0, bytesDownloaded |-> 0]

RECURSIVE collectFrom(_, _, _, _)
collectFrom(d, list, i, s) ==
    IF i > Len(list) THEN s
    ELSE LET cur == d[list[i]]
         IN  collectFrom(d, list, i + 1,
                 IF cur.status = "downloaded"
                 THEN [s EXCEPT !.downloaded = @ + 1,
                                !.bytesDownloaded = @ + cur.size]
                 ELSE IF cur.status = "error"
                 THEN [s EXCEPT !.failed = @ + 1]
                 ELSE s)

collectEpisodeStats(d, list) == collectFrom(d, list, 1, ZeroEpisodeStats)

ZeroStats == [queued |-> 0, downloaded |-> 0, failed |-> 0, ignored |-> 0, bytes |-> 0]

\* downloadEpisodesWithStats: the difference of the two collections.
runStats(initial, final, list) ==
    [queued |-> Len(list),
     downloaded |-> final.downloaded - initial.downloaded,
     failed |-> final.failed - initial.failed,
     ignored |-> 0,
     bytes |-> final.bytesDownloaded - initial.bytesDownloaded]

\* Final status of a run that reached the history close-out.
finalStatus(stats) ==
    IF stats.failed > 0 /\ stats.downloaded > 0 THEN "partial"
    ELSE IF stats.failed > 0 THEN "failed"
    ELSE "success"

\* ------------------------------------------------------------- cleanup
\* A cleanup that sorts by published timestamp ascending: it keeps the oldest.
cleanedEpisodesOldestKept(d, keepLast) ==
    LET list == {e \in Episodes : d[e].status = "downloaded"}
    IN  IF keepLast < 1 \/ keepLast > Cardinality(list) THEN {}
        ELSE {e \in list :
                Cardinality({o \in list : PubDate(o) < PubDate(e)}) >= keepLast}

\* Episodes cleanup visits: the downloaded ones past the keep_last newest. One
\* whose artifact cannot be deleted is skipped, the others are cleaned.
cleanedEpisodes(d, keepLast) ==
    LET list == {e \in Episodes : d[e].status = "downloaded"}
    IN  IF keepLast < 1 \/ keepLast > Cardinality(list) THEN {}
        ELSE {e \in list :
                Cardinality({o \in list : PubDate(o) > PubDate(e)}) >= keepLast}

cleanupDb(d, keepLast) ==
    [e \in Episodes |->
        IF e \in cleanedEpisodes(d, keepLast) \ locked
        THEN [d[e] EXCEPT !.status = "cleaned", !.title = ""]
        ELSE d[e]]

cleanupArt(d, a, keepLast) ==
    [e \in Episodes |-> IF e \in cleanedEpisodes(d, keepLast) \ locked THEN 0 ELSE a[e]]

\* ------------------------------------------------------------ buildXML
\* The feed document lists the downloaded episodes of the stored feed.
feedBuild(d) == {e \in Episodes : d[e].status = "downloaded"}

\* ------------------------------------------------------------- history
HistoryEntry(job, status, trigger, ep, err) ==
    [job |-> job, status |-> status, trigger |-> trigger, ep |-> ep,
     ends |-> 0, stats |-> ZeroStats, error |-> err]

LogFeedUpdateStart(h, trigger) ==
    Append(h, HistoryEntry("feed_update", "running", trigger, 0, ""))

LogFeedUpdateEnd(h, id, status, stats, errMsg) ==
    IF id \notin DOMAIN h THEN h
    ELSE [h EXCEPT ![id] = [@ EXCEPT !.status = status, !.ends = @ + 1,
                                     !.stats = stats, !.error = errMsg]]

\* LogEpisodeRetry / LogEpisodeDelete / LogEpisodeBlock: one terminal entry.
logEpisodeOperation(h, job, e, success, errMsg) ==
    Append(h, [HistoryEntry(job, IF success THEN "success" ELSE "failed",
                            "manual", e, errMsg) EXCEPT !.ends = 1])

\* --------------------------------------------------------------- Update
\* pc: "idle", "fetch" (provider.Build in progress), "loop" (top of the download
\* loop), "dl" (Download in progress), "hooks" (artifact stored, hooks running),
\* "post" (after downloadEpisodes). list/idx: downloadList and the loop index.
\* hid: the history ID. lst: the listing fetched. blk0: the episodes that were
\* blocked when the run reconciled. halted: Download returned TooManyRequests.
Idle == [pc |-> "idle", list |-> <<>>, idx |-> 0, hid |-> 0, lst |-> {},
         fsz |-> 0, init |-> ZeroEpisodeStats, halted |-> FALSE, blk0 |-> {}]

inProgress == {r \in Runs : run[r].pc # "idle"}

\* The context of a run is done: only the worker's runs hang on the root context.
cancelled(r) == r = "worker" /\ ctxDone

\* Where the download loop goes after the candidate at run[r].idx.
nextCandidate(rr) ==
    IF rr.idx + 1 > Len(rr.list)
    THEN [rr EXCEPT !.pc = "post", !.idx = rr.idx + 1]
    ELSE [rr EXCEPT !.pc = "loop", !.idx = rr.idx + 1]

\* downloadEpisodes returns (an error return or the break on TooManyRequests).
leaveLoop(rr) == [rr EXCEPT !.pc = "post"]

\* An early return of Update that forgets the close-out.
failedCloseSkipped(h, hid, errMsg) == h

\* The history close-out of an early return of Update (logHistoryEnd).
failedClose(h, hid, errMsg) == LogFeedUpdateEnd(h, hid, "failed", ZeroStats, errMsg)

\* The history close-out at the end of Update (logHistoryEndWithEpisodes).
finalClose(h, hid, stats) == LogFeedUpdateEnd(h, hid, finalStatus(stats), stats, "")

\* The queued marks at the top of downloadEpisodes.
markQueued(d, list) ==
    [e \in Episodes |->
        IF (\E i \in DOMAIN list : list[i] = e) /\ UpdateEpisodeOk(d, e)
        THEN [d[e] EXCEPT !.status = "queued"]
        ELSE d[e]]

\* Update is called: the history entry is written, then the listing is fetched.
UpdateBegin(r) ==
    /\ run[r].pc = "idle"
    /\ nruns < MaxRuns
    /\ Cardinality(inProgress) < MaxConcurrent
    /\ nruns' = nruns + 1
    /\ hist' = LogFeedUpdateStart(hist, "scheduled")
    /\ run' = [run EXCEPT ![r] = [Idle EXCEPT !.pc = "fetch", !.hid = Len(hist')]]
    /\ UNCHANGED <<svars, hvars, tvars, fvars, locked, cfg, feed, db, art, xml, xmlBuilds, ctxDone, nops>>

\* provider.Build fails: updateFeed returns the error and Update returns.
UpdateFeedError(r) ==
    /\ run[r].pc = "fetch"
    /\ hist' = failedClose(hist, run[r].hid, "update failed")
    /\ run' = [run EXCEPT ![r] = Idle]
    /\ UNCHANGED <<svars, hvars, tvars, fvars, locked, cfg, feed, db, art, xml, xmlBuilds, ctxDone, nruns, nops>>

\* provider.Build returns listing: the rest of updateFeed, fetchEpisodes, the
\* first statistics collection and the queued marks of downloadEpisodes.
UpdateFetched(r, listing) ==
    /\ run[r].pc = "fetch"
    /\ LET d1 == updateFeed(db, listing)
           sel == fetchEpisodes(d1, cfg)
       IN  /\ feed' = "full"
           /\ db' = markQueued(sel.db, sel.list)
           /\ run' = [run EXCEPT ![r] =
                        [run[r] EXCEPT
                           !.pc = IF Len(sel.list) = 0 THEN "post" ELSE "loop",
                           !.list = sel.list, !.idx = 1, !.lst = listing,
                           !.init = collectEpisodeStats(sel.db, sel.list),
                           !.blk0 = blockedEpisodes(db)]]
    /\ UNCHANGED <<svars, hvars, tvars, fvars, locked, cfg, art, xml, xmlBuilds, hist, ctxDone, nruns, nops>>

\* A failed Download that ends the download stage after marking the episode.
downloadFailedStops(r, e, msg) ==
    /\ db' = IF UpdateEpisodeOk(db, e)
             THEN [db EXCEPT ![e].status = "error", ![e].error = msg] ELSE db
    /\ run' = [run EXCEPT ![r] = leaveLoop(run[r])]

\* What downloadEpisodes does with a failed Download (other than TooManyRequests).
downloadFailed(r, e, msg) ==
    IF UpdateEpisodeOk(db, e)
    THEN /\ db' = [db EXCEPT ![e].status = "error", ![e].error = msg]
         /\ run' = [run EXCEPT ![r] = nextCandidate(run[r])]
    ELSE /\ db' = db
         /\ run' = [run EXCEPT ![r] = leaveLoop(run[r])]

\* Top of the loop body: the artifact probe, the downloading mark and the call
\* of Download. With the context already done the subprocess is not started
\* and Download returns an error with an empty output.
Probe(r) ==
    /\ run[r].pc = "loop"
    /\ LET e == run[r].list[run[r].idx]
       IN  IF art[e] # 0
           THEN IF UpdateEpisodeOk(db, e)
                THEN /\ db' = [db EXCEPT ![e].size = art[e], ![e].status = "downloaded"]
                     /\ run' = [run EXCEPT ![r] = nextCandidate(run[r])]
                ELSE /\ db' = db
                     /\ run' = [run EXCEPT ![r] = leaveLoop(run[r])]
           ELSE LET d1 == IF UpdateEpisodeOk(db, e)
                          THEN [db EXCEPT ![e].status = "downloading"] ELSE db
                IN  IF cancelled(r)
                    THEN IF UpdateEpisodeOk(d1, e)
                         THEN /\ db' = [d1 EXCEPT ![e].status = "error", ![e].error = ""]
                              /\ run' = [run EXCEPT ![r] = nextCandidate(run[r])]
                         ELSE /\ db' = d1
                              /\ run' = [run EXCEPT ![r] = leaveLoop(run[r])]
                    ELSE /\ db' = d1
                         /\ run' = [run EXCEPT ![r].pc = "dl"]
    /\ UNCHANGED <<svars, hvars, tvars, fvars, locked, cfg, feed, art, xml, xmlBuilds, hist, ctxDone, nruns, nops>>

\* ErrTooManyRequests handled like any other error of Download.
DownloadTooManyRequestsAsError(r) ==
    /\ run[r].pc = "dl"
    /\ LET e == run[r].list[run[r].idx]
       IN  db' = IF UpdateEpisodeOk(db, e)
                 THEN [db EXCEPT ![e].status = "error", ![e].error = "failed"] ELSE db
    /\ run' = [run EXCEPT ![r] = [nextCandidate(run[r]) EXCEPT !.halted = TRUE]]
    /\ UNCHANGED <<svars, hvars, tvars, fvars, locked, cfg, feed, art, xml, xmlBuilds, hist, ctxDone, nruns, nops>>

\* Download returns ErrTooManyRequests: the loop breaks.
DownloadTooManyRequests(r) ==
    /\ run[r].pc = "dl"
    /\ run' = [run EXCEPT ![r] = [leaveLoop(run[r]) EXCEPT !.halted = TRUE]]
    /\ UNCHANGED <<svars, hvars, tvars, fvars, locked, cfg, feed, db, art, xml, xmlBuilds, hist, ctxDone, nruns, nops>>

\* Download returns another error (also when the context kills the subprocess).
DownloadError(r) ==
    /\ run[r].pc = "dl"
    /\ downloadFailed(r, run[r].list[run[r].idx], "failed")
    /\ UNCHANGED <<svars, hvars, tvars, fvars, locked, cfg, feed, art, xml, xmlBuilds, hist, ctxDone, nruns, nops>>

\* Download succeeds and the temp file is copied into the artifact store;
\* the post-download hooks run next.
DownloadOk(r, size) ==
    /\ run[r].pc = "dl"
    /\ art' = [art EXCEPT ![run[r].list[run[r].idx]] = size]
    /\ run' = [run EXCEPT ![r].pc = "hooks", ![r].fsz = size]
    /\ UNCHANGED <<svars, hvars, tvars, fvars, locked, cfg, feed, db, xml, xmlBuilds, hist, ctxDone, nruns, nops>>

\* After the hooks: the record gets size and status downloaded.
HooksDone(r) ==
    /\ run[r].pc = "hooks"
    /\ LET e == run[r].list[run[r].idx]
       IN  IF UpdateEpisodeOk(db, e)
           THEN /\ db' = [db EXCEPT ![e].size = run[r].fsz, ![e].status = "downloaded"]
                /\ run' = [run EXCEPT ![r] = [nextCandidate(run[r]) EXCEPT !.fsz = 0]]
           ELSE /\ db' = db
                /\ run' = [run EXCEPT ![r] = [leaveLoop(run[r]) EXCEPT !.fsz = 0]]
    /\ UNCHANGED <<svars, hvars, tvars, fvars, locked, cfg, feed, art, xml, xmlBuilds, hist, ctxDone, nruns, nops>>

\* The rest of Update: second statistics collection, cleanup, buildXML,
\* buildOPML and the history close-out.
UpdateFinish(r) ==
    /\ run[r].pc = "post"
    /\ LET stats == runStats(run[r].init,
                             collectEpisodeStats(db, run[r].list), run[r].list)
           keep == cfg.keepLast
           d1 == cleanupDb(db, keep)
       IN  /\ db' = d1
           /\ art' = cleanupArt(db, art, keep)
           /\ xml' = feedBuild(d1)
           /\ xmlBuilds' = 1
           /\ hist' = finalClose(hist, run[r].hid, stats)
    /\ run' = [run EXCEPT ![r] = Idle]
    /\ UNCHANGED <<svars, hvars, tvars, fvars, locked, cfg, feed, ctxDone, nruns, nops>>

\* buildXML or buildOPML fails after cleanup: Update closes the entry as failed,
\* with the statistics of the run, and returns the error.
UpdateBuildError(r) ==
    /\ run[r].pc = "post"
    /\ LET stats == runStats(run[r].init,
                             collectEpisodeStats(db, run[r].list), run[r].list)
           keep == cfg.keepLast
       IN  /\ db' = cleanupDb(db, keep)
           /\ art' = cleanupArt(db, art, keep)
           /\ hist' = LogFeedUpdateEnd(hist, run[r].hid, "failed", stats, "build failed")
    /\ run' = [run EXCEPT ![r] = Idle]
    /\ UNCHANGED <<svars, hvars, tvars, fvars, locked, cfg, feed, xml, xmlBuilds, ctxDone, nruns, nops>>

\* ------------------------------------------------ episode-scoped operations
BlockEpisode(e) ==
    /\ nops < MaxOps
    /\ nops' = nops + 1
    /\ IF db[e].status = "absent"
       THEN /\ db' = AddFeed(db, {e}, StubEpisode)
            /\ feed' = "stub"
       ELSE /\ db' = [db EXCEPT ![e].status = "blocked"]
            /\ feed' = feed
    /\ art' = IF e \in locked THEN art ELSE [art EXCEPT ![e] = 0]
    /\ hist' = logEpisodeOperation(hist, "episode_block", e, TRUE, "")
    /\ UNCHANGED <<svars, hvars, tvars, fvars, locked, cfg, xml, xmlBuilds, run, ctxDone, nruns>>

DeleteEpisode(e) ==
    /\ nops < MaxOps
    /\ nops' = nops + 1
    /\ IF db[e].status = "absent"
       THEN /\ hist' = logEpisodeOperation(hist, "episode_delete", e, FALSE, "not found")
            /\ UNCHANGED <<db, art>>
       ELSE /\ art' = IF e \in locked THEN art ELSE [art EXCEPT ![e] = 0]
            /\ db' = [db EXCEPT ![e] = NoEpisode]
            /\ hist' = logEpisodeOperation(hist, "episode_delete", e, TRUE, "")
    /\ UNCHANGED <<svars, hvars, tvars, fvars, locked, cfg, feed, xml, xmlBuilds, run, ctxDone, nruns>>

\* ok / size: the outcome of the Download RetryEpisode makes when there is no artifact.
RetryEpisode(e, ok, size) ==
    /\ nops < MaxOps
    /\ nops' = nops + 1
    /\ IF db[e].status = "absent"
       THEN /\ hist' = logEpisodeOperation(hist, "episode_retry", e, FALSE, "not found")
            /\ UNCHANGED <<db, art, xml, xmlBuilds>>
       ELSE IF art[e] # 0
       THEN /\ db' = [db EXCEPT ![e].status = "downloaded", ![e].error = "",
                                ![e].size = art[e]]
            /\ UNCHANGED <<art, xml, xmlBuilds, hist>>
       ELSE IF ~ok
       THEN /\ db' = [db EXCEPT ![e].status = "error", ![e].error = "failed"]
            /\ hist' = logEpisodeOperation(hist, "episode_retry", e, FALSE, "failed")
            /\ UNCHANGED <<art, xml, xmlBuilds>>
       ELSE /\ art' = [art EXCEPT ![e] = size]
            /\ db' = [db EXCEPT ![e].status = "downloaded", ![e].error = "",
                                ![e].size = size]
            /\ IF feed = "absent"
               THEN UNCHANGED <<xml, xmlBuilds>>
               ELSE /\ xml' = feedBuild(db')
                    /\ xmlBuilds' = 1
            /\ hist' = logEpisodeOperation(hist, "episode_retry", e, TRUE, "")
    /\ UNCHANGED <<svars, hvars, tvars, fvars, locked, cfg, feed, run, ctxDone, nruns>>

\* SIGINT / SIGTERM reaches the signal goroutine, which cancels the root context.
Cancel ==
    /\ ~ctxDone
    /\ ctxDone' = TRUE
    /\ UNCHANGED <<svars, hvars, tvars, fvars, locked, cfg, feed, db, art, xml, xmlBuilds, hist, run, nruns, nops>>

\* ------------------------------------------------------- specification
Configs ==
    {[filters |-> [minDuration |-> 0], pageSize |-> 2, keepLast |-> 0],
     [filters |-> [minDuration |-> 2], pageSize |-> 1, keepLast |-> 1]}

\* Bounds of the history store: the clock runs from 0 to MaxClock seconds, the
\* random part of a history ID is one of NumTags values, and a day of the
\* retention period lasts Day seconds (scaled down from 86400).
MaxClock == 2
NumTags == 2
Day == 1

\* History IDs "<unix time>-<uuid>", as pairs <<time, uuid>>.
HIds == (0..MaxClock) \X (1..NumTags)

\* start: the second of StartTime; seq: the place of StartTime among all start
\* times; title: EpisodeTitle, a string of characters, empty for a feed update.
NoEntry == [feed |-> 0, start |-> 0, seq |-> 0, status |-> "absent", title |-> <<>>]
NoCall == [op |-> "none"]

\* The history store where the pipeline or the scheduler is looked at alone.
HistoryEmpty ==
    /\ historyTable = [h \in HIds |-> NoEntry]
    /\ feedIndex = {}
    /\ clock = 0
    /\ call = NoCall
    /\ hops = 0

\* progress.New(), a downloader with no callback set, and no call in progress.
NoFeedProgress ==
    [present |-> FALSE, total |-> 0, completed |-> 0, downloading |-> 0,
     queued |-> 0, percent |-> 0]
NoEpisodeProgress == [present |-> FALSE, stage |-> "", percent |-> 0]
NoDownloads == [pc |-> "idle", todo |-> <<>>]
Unlocked == [holder |-> "none", stage |-> "", percent |-> 0]
NoFrame == [built |-> FALSE]
NoReader == [pc |-> "idle"]

TrackerEmpty ==
    /\ feedProgress = NoFeedProgress
    /\ episodeProgress = [e \in Episodes |-> NoEpisodeProgress]
    /\ progressCallback = 0
    /\ updateLock = Unlocked
    /\ dl = [r \in Runs |-> NoDownloads]
    /\ reader = NoReader
    /\ frame = NoFrame
    /\ tops = 0

NoneEnqueued == [kicks |-> <<>>, ticks |-> {}]

\* An empty data directory, no copy and no invocation of the downloader.
NoFile == [exists |-> FALSE, bytes |-> 0]
NoCopy == [pc |-> "idle", e |-> 0, off |-> 0]
Nothing == [e |-> 0, bytes |-> 0]
Callers == {"selfupdate", "metadata", "worker", "manual", "retry"}

StoreEmpty ==
    /\ file = [e \in Episodes |-> NoFile]
    /\ copy = [r \in Runs |-> NoCopy]
    /\ probed = Nothing
    /\ served = Nothing
    /\ invoke = [c \in Callers |-> "idle"]
    /\ requests = 0
    /\ quiet = {}

\* The scheduler's variables where the pipeline is looked at alone.
SchedIdle ==
    /\ storageType = "local"
    /\ feeds = {}
    /\ cronFeeds = {}
    /\ updates = <<>>
    /\ updatesClosed = FALSE
    /\ worker = "done"
    /\ workerFeed = 0
    /\ sched = "done"
    /\ schedTodo = {}
    /\ schedFeed = 0
    /\ cron = "new"
    /\ cronEntries = {}
    /\ cronJob = <<>>
    /\ manual = {}
    /\ stop = FALSE
    /\ sigHandler = "none"
    /\ web = "none"
    /\ main = "wait"
    /\ dbClosed = FALSE
    /\ panicked = FALSE
    /\ enqueued = NoneEnqueued

Init ==
    /\ SchedIdle
    /\ cfg \in Configs
    /\ feed = "absent"
    /\ db = [e \in Episodes |-> NoEpisode]
    /\ art = [e \in Episodes |-> 0]
    /\ xml = {}
    /\ xmlBuilds = 0
    /\ hist = <<>>
    /\ run = [r \in Runs |-> Idle]
    /\ ctxDone = FALSE
    /\ nruns = 0
    /\ nops = 0
    /\ locked = {}
    /\ HistoryEmpty
    /\ TrackerEmpty
    /\ StoreEmpty

Next ==
    \/ \E r \in Runs : UpdateBegin(r)
    \/ \E r \in Runs : UpdateFeedError(r)
    \/ \E r \in Runs, listing \in SUBSET Episodes : UpdateFetched(r, listing)
    \/ \E r \in Runs : Probe(r)
    \/ \E r \in Runs : DownloadTooManyRequests(r)
    \/ \E r \in Runs : DownloadError(r)
    \/ \E r \in Runs, size \in Sizes : DownloadOk(r, size)
    \/ \E r \in Runs : HooksDone(r)
    \/ \E r \in Runs : UpdateFinish(r)
    \/ \E r \in Runs : UpdateBuildError(r)
    \/ \E e \in Episodes : BlockEpisode(e)
    \/ \E e \in Episodes : DeleteEpisode(e)
    \/ \E e \in Episodes, ok \in BOOLEAN, size \in Sizes : RetryEpisode(e, ok, size)
    \/ Cancel

Spec == Init /\ [][Next]_vars

\* ------------------------------------------------------ pipeline properties
Terminal == {"success", "failed", "partial"}

\* The candidates the download loop of r has not finished: the one in flight
\* and the ones after it.
remaining(r) ==
    IF run[r].pc \in {"loop", "dl", "hooks"}
    THEN {run[r].list[i] : i \in run[r].idx..Len(run[r].list)}
    ELSE {}

\* The step is one of run r.
stepOf(r) == run'[r] # run[r]

\* The step is the reconciliation and selection of run r (UpdateFetched).
selects(r) == run[r].pc = "fetch" /\ run'[r].pc \in {"loop", "post"}

\* The step is the end of run r with the feed document published.
publishes(r) ==
    /\ run[r].pc = "post" /\ run'[r].pc = "idle"
    /\ hist'[run[r].hid].error = ""

\* C2: an episode an earlier run left in queued or downloading is selected as a
\* download candidate by the later Update of its feed: when that Update, with no
\* other Update in progress, reconciles a listing that still has the episode,
\* and the episode passes the filters, the episode is in its download list
\* (or the list is a full page). The selection rule does not depend on the run,
\* so what one later run does every later run does.
C2_Retried ==
    [][\A r \in Runs, e \in Episodes :
          ( /\ selects(r)
            /\ inProgress = {r}
            /\ db[e].status \in {"queued", "downloading"}
            /\ e \in run'[r].lst
            /\ matchFilters(e, cfg.filters) )
          => \/ \E i \in DOMAIN run'[r].list : run'[r].list[i] = e
             \/ Len(run'[r].list) >= cfg.pageSize]_vars

\* C3: an Update that reconciles when an episode is blocked (the episode is
\* blocked at its start, or was when it reconciled) never changes the record or
\* the artifact of the episode while it stays blocked, never has it in its
\* download list, and publishes a feed document without it, whatever the
\* listing holds.
C3_BlockedSticky ==
    [][\A r \in Runs, e \in Episodes :
          ( /\ stepOf(r)
            /\ db[e].status = "blocked"
            /\ run[r].pc \in {"idle", "fetch"} \/ e \in run[r].blk0 )
          => /\ db'[e] = db[e]
             /\ art'[e] = art[e]
             /\ \A i \in DOMAIN run'[r].list : run'[r].list[i] # e
             /\ publishes(r) => e \notin xml']_vars

\* An Update has reconciled a listing that still contains a blocked episode and
\* has finished its download stage: the episode is still blocked, its artifact
\* is gone, and the document published before the block still lists it.
C3_Witness ==
    \E r \in Runs, e \in Episodes :
        /\ run[r].pc = "post" /\ Len(run[r].list) > 0
        /\ e \in run[r].blk0 /\ e \in run[r].lst
        /\ db[e].status = "blocked" /\ art[e] = 0
        /\ e \in xml

C5_DownloadedHasArtifact ==
    \A e \in Episodes :
        db[e].status = "downloaded" => art[e] # 0 /\ art[e] = db[e].size

\* C6: the reconciliation of updateFeed deletes a record only if its status is
\* new or error and its ID is not in the fetched listing.
C6_ReconcileDeletes ==
    [][\A r \in Runs, e \in Episodes :
          (selects(r) /\ db[e].status # "absent" /\ db'[e].status = "absent")
          => /\ db[e].status \in {"new", "error"}
             /\ e \notin run'[r].lst]_vars

\* C8: once the root context is cancelled, the steps of the worker's Update in
\* its download stage leave the in-flight episode and the candidates not yet
\* processed in queued or downloading: none of them is set to error.
C8_CancelKeepsStatus ==
    [][\A e \in Episodes :
          ( /\ ctxDone
            /\ stepOf("worker")
            /\ e \in remaining("worker")
            /\ db[e].status \in {"queued", "downloading"} )
          => db'[e].status # "error"]_vars

\* C9: when Download returns TooManyRequests the stage ends at once with the
\* store untouched (the episode is not set to error); the run then calls
\* Download for no other candidate: its next step is the end of the Update,
\* which runs cleanup, closes the history entry and, unless the build fails,
\* publishes the feed document.
C9_TooManyRequests ==
    [][\A r \in Runs :
          /\ (run[r].pc = "dl" /\ run'[r].halted)
             => /\ db' = db /\ art' = art
                /\ run'[r].pc = "post"
          /\ (run[r].halted /\ stepOf(r))
             => /\ run'[r].pc = "idle"
                /\ db' = cleanupDb(db, cfg.keepLast)
                /\ art' = cleanupArt(db, art, cfg.keepLast)
                /\ hist'[run[r].hid].status \in Terminal
                /\ hist'[run[r].hid].error = "" => xml' = feedBuild(db')]_vars

\* A run halted by TooManyRequests with candidates left: the in-flight episode
\* is downloading and a later candidate is still queued.
C9_Witness ==
    \E r \in Runs :
        /\ run[r].halted /\ run[r].pc = "post"
        /\ run[r].idx < Len(run[r].list)
        /\ db[run[r].list[run[r].idx]].status = "downloading"
        /\ db[run[r].list[run[r].idx + 1]].status = "queued"

\* The step is a Download of r that returned an error other than TooManyRequests.
downloadFails(r) ==
    /\ run[r].pc = "dl" /\ stepOf(r)
    /\ ~run'[r].halted /\ run'[r].pc # "hooks"

closedUpdates ==
    {i \in DOMAIN hist : hist[i].job = "feed_update" /\ hist[i].status \in Terminal}

\* C12: in the statistics of a completed Update none of episodes_queued,
\* episodes_downloaded, episodes_failed and bytes_downloaded is negative, and
\* downloaded and failed together are at most the number of candidates.
C12_StatsNonNegative ==
    \A i \in closedUpdates :
        /\ hist[i].stats.queued >= 0
        /\ hist[i].stats.downloaded >= 0
        /\ hist[i].stats.failed >= 0
        /\ hist[i].stats.bytes >= 0
        /\ hist[i].stats.downloaded + hist[i].stats.failed <= hist[i].stats.queued

\* C13: the ignored count of the entry of an Update is the number of episodes
\* the run persisted with status ignored. Stated for the first Update of the
\* feed with no episode-scoped operation around it, where every ignored record
\* of the store was persisted by this run.
C13_IgnoredCounted ==
    [][\A r \in Runs :
          (publishes(r) /\ nruns = 1 /\ nops = 0)
          => hist'[run[r].hid].stats.ignored =
                Cardinality({e \in Episodes : db[e].status = "ignored"})]_vars

\* The download stage of r returned an error: the loop was left before the
\* last candidate and not by the break on TooManyRequests.
stageFailed(r) ==
    /\ run[r].pc = "post" /\ ~run[r].halted
    /\ run[r].idx <= Len(run[r].list)

\* C14: an Update whose download stage failed with a storage error closes its
\* history entry as failed with an error message; it is never recorded as
\* success.
C14_StageErrorFails ==
    [][\A r \in Runs :
          (stageFailed(r) /\ run'[r].pc = "idle")
          => /\ hist'[run[r].hid].status = "failed"
             /\ hist'[run[r].hid].error # ""]_vars

\* C15: every invocation of DeleteEpisode, BlockEpisode or RetryEpisode appends
\* exactly one history entry, which is terminal and names the operation.
C15_OneEntryPerOperation ==
    [][nops' = nops + 1
       => /\ Len(hist') = Len(hist) + 1
          /\ hist'[Len(hist')].job \in {"episode_delete", "episode_block", "episode_retry"}
          /\ hist'[Len(hist')].status \in Terminal
          /\ \A i \in DOMAIN hist : hist'[i] = hist[i]]_vars

\* C35: BlockEpisode of e ran after an Update had selected e as a candidate;
\* when the Update ends too (the artifact of e could be deleted), e is blocked
\* and has no artifact.
C35_BlockOutlastsUpdate ==
    [][\A r \in Runs, e \in Episodes :
         (/\ run[r].pc = "post" /\ run'[r].pc = "idle"
          /\ e \notin locked
          /\ \E i \in DOMAIN run[r].list : run[r].list[i] = e
          /\ \E j \in DOMAIN hist :
                /\ j > run[r].hid
                /\ hist[j].job = "episode_block" /\ hist[j].ep = e
                /\ hist[j].status = "success")
         => (db'[e].status = "blocked" /\ art'[e] = 0)]_vars

\* C38: BlockEpisode of e, with a feed record stored, leaves the feed record and
\* the record of every other episode as they were.
C38_BlockTouchesOneEpisode ==
    [][(/\ nops' = nops + 1
        /\ hist'[Len(hist')].job = "episode_block"
        /\ feed # "absent")
       => /\ feed' = feed
          /\ \A e \in Episodes :
                e # hist'[Len(hist')].ep => (db'[e] = db[e] /\ art'[e] = art[e])]_vars

\* ============================================ runs in sequence, one feed
\* Update runs of one feed with no episode operation and no cancellation between
\* them. The listing adapter returns at most page_size episodes; deletions of
\* the artifacts in locked fail with an error other than NotExist.
listings(c) == {l \in SUBSET Episodes : Cardinality(l) <= c.pageSize}

ConfigsSeq ==
    {[filters |-> [minDuration |-> m], pageSize |-> p, keepLast |-> k] :
        m \in {0, 2}, p \in {1, NumEps}, k \in 0..2}

InitSeq ==
    /\ SchedIdle
    /\ cfg \in ConfigsSeq
    /\ feed = "absent"
    /\ db = [e \in Episodes |-> NoEpisode]
    /\ art = [e \in Episodes |-> 0]
    /\ xml = {}
    /\ xmlBuilds = 0
    /\ hist = <<>>
    /\ run = [r \in Runs |-> Idle]
    /\ ctxDone = FALSE
    /\ nruns = 0
    /\ nops = 0
    /\ locked \in SUBSET Episodes
    /\ HistoryEmpty
    /\ TrackerEmpty
    /\ StoreEmpty

NextSeq ==
    \/ \E r \in Runs : UpdateBegin(r)
    \/ \E r \in Runs : UpdateFeedError(r)
    \/ \E r \in Runs, listing \in listings(cfg) : UpdateFetched(r, listing)
    \/ \E r \in Runs : Probe(r)
    \/ \E r \in Runs : DownloadTooManyRequests(r)
    \/ \E r \in Runs : DownloadError(r)
    \/ \E r \in Runs, size \in Sizes : DownloadOk(r, size)
    \/ \E r \in Runs : HooksDone(r)
    \/ \E r \in Runs : UpdateFinish(r)
    \/ \E r \in Runs : UpdateBuildError(r)

SpecSeq == InitSeq /\ [][NextSeq]_vars

\* Run r ends and publishes after its download loop was halted by
\* TooManyRequests on the second of three candidates, the first one downloaded.
haltedOnSecond(r) ==
    /\ run[r].pc = "post" /\ run'[r].pc = "idle"
    /\ xmlBuilds' = 1 /\ hist'[run[r].hid].error = ""
    /\ run[r].halted /\ Len(run[r].list) = 3 /\ run[r].idx = 2
    /\ run[r].init = ZeroEpisodeStats
    /\ db[run[r].list[1]].status = "downloaded"

\* C11: when the listing returns the new episodes A, B, C and Download returns
\* TooManyRequests on B, then after Update has returned A is downloaded, B and C
\* are both queued, the feed document is rebuilt and the history entry of the
\* run is partial with downloaded = 1, failed = 0 and an empty error.
C11_RateLimitMidRun ==
    [][\A r \in Runs : haltedOnSecond(r)
          => /\ db'[run[r].list[1]].status = "downloaded"
             /\ db'[run[r].list[2]].status = "queued"
             /\ db'[run[r].list[3]].status = "queued"
             /\ xml' = feedBuild(db')
             /\ hist'[run[r].hid].status = "partial"
             /\ hist'[run[r].hid].stats.downloaded = 1
             /\ hist'[run[r].hid].stats.failed = 0
             /\ hist'[run[r].hid].error = ""]_vars

\* The run before r's downloaded every candidate it selected: no Download
\* failed and none was refused.
afterCleanRun(r) ==
    /\ run[r].hid > 1
    /\ hist[run[r].hid - 1].status = "success"
    /\ hist[run[r].hid - 1].stats.downloaded = hist[run[r].hid - 1].stats.queued

\* listing is what the previous run already reconciled the store with: it has
\* no episode the store lacks and it has every pending episode of the store.
\* The listing of the previous run, returned again, is such a listing.
sameListing(listing) ==
    /\ listing \subseteq {e \in Episodes : db[e].status # "absent"}
    /\ episodeSet(db) \subseteq listing

\* C16: Update is idempotent when upstream does not change: when the run before
\* had no downloader failure and the listing is the same, the run selects no
\* episode (the downloader is invoked for none), leaves the store as it is, and
\* publishes the same set of downloaded episodes in the same feed document.
C16_Idempotent ==
    [][\A r \in Runs :
         /\ (selects(r) /\ afterCleanRun(r) /\ sameListing(run'[r].lst))
               => /\ run'[r].list = <<>>
                  /\ run'[r].pc = "post"
                  /\ db' = db
         /\ (publishes(r) /\ afterCleanRun(r) /\ sameListing(run[r].lst)
                          /\ run[r].list = <<>>)
               => /\ {e \in Episodes : db'[e].status = "downloaded"} =
                       {e \in Episodes : db[e].status = "downloaded"}
                  /\ art' = art
                  /\ xml' = xml]_vars

\* A second run that selected nothing from the listing the first run downloaded.
C16_Witness ==
    \E r \in Runs :
        /\ run[r].pc = "post" /\ run[r].hid = 2 /\ run[r].list = <<>>
        /\ hist[1].status = "success"
        /\ hist[1].stats.queued >= 2
        /\ hist[1].stats.downloaded = hist[1].stats.queued
        /\ run[r].lst = {e \in Episodes : db[e].status # "absent"}
        /\ Cardinality(run[r].lst) >= 2
        /\ xml # {}

C33_TriggerTellsStart ==
    [][\A r \in Runs :
         (run[r].pc = "idle" /\ run'[r].pc = "fetch")
         => hist'[Len(hist')].trigger = (IF r = "manual" THEN "manual" ELSE "scheduled")]_vars

\* ------------------------------------------------------- feed removal
\* Badger.DeleteFeed, the episodes: every key under episode/<feedID>/ is deleted.
DeleteFeed(d) == [e \in Episodes |-> NoEpisode]

\* DELETE /feeds/{id}: the feed is deleted from the database, from the
\* configuration file and from the handler's map of feeds. The handler has no
\* access to the artifact store.
FeedsDeleteFeed ==
    /\ nops < MaxOps
    /\ nops' = nops + 1
    /\ feed' = "absent"
    /\ db' = DeleteFeed(db)
    /\ UNCHANGED <<svars, hvars, tvars, fvars, locked, cfg, art, xml, xmlBuilds, hist, run, ctxDone, nruns>>

NextDelete ==
    \/ NextSeq
    \/ FeedsDeleteFeed

SpecDelete == Init /\ [][NextDelete]_vars

\* C30: after DELETE /feeds/{id} the store has no feed record and no episode
\* record of the feed, the feed document of the feed is no longer in the
\* artifact store, and the history entries of the feed are still there. (The
\* model has one feed; the records of other feeds are not in it.)
C30_FeedDestroyed ==
    [][(nops' = nops + 1 /\ feed' = "absent") =>
          /\ \A e \in Episodes : db'[e].status = "absent"
          /\ xmlBuilds' = 0
          /\ hist' = hist]_vars

\* The step is the end of a run that went through the cleanup stage.
cleansUp(r) == run[r].pc = "post" /\ run'[r].pc = "idle"

downloadedIn(d) == {e \in Episodes : d[e].status = "downloaded"}

\* The n episodes of set with the latest published timestamps.
latest(set, n) ==
    {e \in set : Cardinality({o \in set : PubDate(o) > PubDate(e)}) < n}

\* C17: after the cleanup stage with keep_last = N >= 1 and more than N
\* downloaded episodes, the N latest published ones are still downloaded and
\* every other one is cleaned, with an empty title and no artifact, except those
\* whose artifact could not be deleted: these stay downloaded with their
\* artifact, the pass goes on with the others and the feed document is
\* published. With keep_last = 0 or at most N downloaded episodes cleanup
\* changes nothing.
C17_Cleanup ==
    [][\A r \in Runs : cleansUp(r) =>
         LET n == cfg.keepLast
             was == downloadedIn(db)
             kept == latest(was, n)
         IN  /\ (n >= 1 /\ Cardinality(was) > n)
                   => /\ downloadedIn(db') = kept \cup (was \cap locked)
                      /\ \A e \in (was \ kept) \ locked :
                            /\ db'[e].status = "cleaned"
                            /\ db'[e].title = ""
                            /\ art'[e] = 0
                      /\ \A e \in kept \cup (was \cap locked) :
                            db'[e] = db[e] /\ art'[e] = art[e]
                      /\ (locked \cap was = {}) => Cardinality(downloadedIn(db')) = n
             /\ (n = 0 \/ Cardinality(was) <= n) => (db' = db /\ art' = art)
             /\ publishes(r) => xml' = downloadedIn(db')]_vars

\* A published run whose cleanup cleaned one episode and failed to delete the
\* artifact of another, which stays downloaded and in the feed document.
C17_Witness ==
    /\ inProgress = {} /\ cfg.keepLast >= 1
    /\ hist # <<>> /\ hist[Len(hist)].status = "success"
    /\ \E e, f, g \in Episodes :
          /\ PubDate(e) < PubDate(g) /\ PubDate(f) < PubDate(g)
          /\ db[e].status = "cleaned" /\ db[e].title = "" /\ art[e] = 0
          /\ f \in locked /\ db[f].status = "downloaded" /\ art[f] # 0 /\ f \in xml
          /\ g \notin locked /\ db[g].status = "downloaded" /\ g \in xml
          /\ Cardinality(downloadedIn(db)) > cfg.keepLast

\* ================================================== scheduler and lifecycle
\* Number of feed IDs a configuration can hold.
NumFeeds == 2
\* Capacity of the updates channel. main.go makes it with 16 slots; the model
\* scales it down so that a full queue is reached with NumFeeds feeds.
QueueCap == 2

AllFeeds == 1..NumFeeds

\* A goroutine of the errgroup that was never started or has returned.
returned(g) == g \in {"none", "done"}

\* The process still runs.
alive == main # "exit" /\ ~panicked

\* Number of Manager.Update calls executing.
updating == Cardinality(manual) + (IF worker = "update" THEN 1 ELSE 0)

\* The scheduler loop with the initial update of every feed, cron schedule or not.
SchedAddKickAll(f) ==
    /\ alive /\ sched = "add" /\ f \in schedTodo
    /\ cronEntries' = cronEntries \cup {f}
    /\ schedTodo' = schedTodo \ {f}
    /\ sched' = "kick" /\ schedFeed' = f
    /\ UNCHANGED <<pvars, hvars, tvars, fvars, enqueued, storageType, feeds, cronFeeds, updates, updatesClosed, worker,
                   workerFeed, cron, cronJob, manual, stop, sigHandler, web, main,
                   dbClosed, panicked>>

\* Scheduler loop, one feed: c.AddFunc registers the cron entry; a feed without
\* an explicit cron schedule is then pushed on the queue (the kick).
SchedAdd(f) ==
    /\ alive /\ sched = "add" /\ f \in schedTodo
    /\ cronEntries' = cronEntries \cup {f}
    /\ schedTodo' = schedTodo \ {f}
    /\ IF f \in cronFeeds
       THEN UNCHANGED <<sched, schedFeed>>
       ELSE sched' = "kick" /\ schedFeed' = f
    /\ UNCHANGED <<pvars, hvars, tvars, fvars, enqueued, storageType, feeds, cronFeeds, updates, updatesClosed, worker,
                   workerFeed, cron, cronJob, manual, stop, sigHandler, web, main,
                   dbClosed, panicked>>

\* updates <- cronFeed of the scheduler loop: blocks while the queue is full.
SchedKick ==
    /\ alive /\ sched = "kick" /\ Len(updates) < QueueCap
    /\ updates' = Append(updates, schedFeed)
    /\ enqueued' = [enqueued EXCEPT !.kicks = Append(@, schedFeed)]
    /\ sched' = "add" /\ schedFeed' = 0
    /\ UNCHANGED <<pvars, hvars, tvars, fvars, storageType, feeds, cronFeeds, updatesClosed, worker,
                   workerFeed, schedTodo, cron, cronEntries, cronJob, manual, stop,
                   sigHandler, web, main, dbClosed, panicked>>

\* c.Start() after the loop.
SchedStart ==
    /\ alive /\ sched = "add" /\ schedTodo = {}
    /\ cron' = "started"
    /\ sched' = "wait"
    /\ UNCHANGED <<pvars, hvars, tvars, fvars, enqueued, storageType, feeds, cronFeeds, updates, updatesClosed, worker,
                   workerFeed, schedTodo, schedFeed, cronEntries, cronJob, manual, stop,
                   sigHandler, web, main, dbClosed, panicked>>

\* <-ctx.Done(), c.Stop(), return.
SchedStop ==
    /\ alive /\ sched = "wait" /\ ctxDone
    /\ cron' = "stopped"
    /\ sched' = "done"
    /\ UNCHANGED <<pvars, hvars, tvars, fvars, enqueued, storageType, feeds, cronFeeds, updates, updatesClosed, worker,
                   workerFeed, schedTodo, schedFeed, cronEntries, cronJob, manual, stop,
                   sigHandler, web, main, dbClosed, panicked>>

\* A timer fire of the entry of f. SkipIfStillRunning drops the fire while the
\* previous job of the entry has not returned.
CronFire(f) ==
    /\ alive /\ cron = "started" /\ f \in cronEntries
    /\ cronJob[f] = "idle"
    /\ cronJob' = [cronJob EXCEPT ![f] = "sending"]
    /\ UNCHANGED <<pvars, hvars, tvars, fvars, enqueued, storageType, feeds, cronFeeds, updates, updatesClosed, worker,
                   workerFeed, sched, schedTodo, schedFeed, cron, cronEntries, manual,
                   stop, sigHandler, web, main, dbClosed, panicked>>

\* updates <- cronFeed of the cron job: blocks while the queue is full.
CronSend(f) ==
    /\ alive /\ cronJob[f] = "sending"
    /\ ~updatesClosed /\ Len(updates) < QueueCap
    /\ updates' = Append(updates, f)
    /\ enqueued' = [enqueued EXCEPT !.ticks = @ \cup {f}]
    /\ cronJob' = [cronJob EXCEPT ![f] = "idle"]
    /\ UNCHANGED <<pvars, hvars, tvars, fvars, storageType, feeds, cronFeeds, updatesClosed, worker,
                   workerFeed, sched, schedTodo, schedFeed, cron, cronEntries, manual,
                   stop, sigHandler, web, main, dbClosed, panicked>>

\* The channel is closed under a cron job that is sending: the send panics.
CronSendClosed(f) ==
    /\ alive /\ cronJob[f] = "sending" /\ updatesClosed
    /\ panicked' = TRUE
    /\ UNCHANGED <<pvars, hvars, tvars, fvars, enqueued, storageType, feeds, cronFeeds, updates, updatesClosed, worker,
                   workerFeed, sched, schedTodo, schedFeed, cron, cronEntries, cronJob,
                   manual, stop, sigHandler, web, main, dbClosed>>

\* The worker's select takes a feed from the queue and calls manager.Update.
WorkerReceive ==
    /\ alive /\ worker = "recv" /\ updates # <<>>
    /\ worker' = "update"
    /\ workerFeed' = Head(updates)
    /\ updates' = Tail(updates)
    /\ UNCHANGED <<pvars, hvars, tvars, fvars, enqueued, storageType, feeds, cronFeeds, updatesClosed, sched, schedTodo,
                   schedFeed, cron, cronEntries, cronJob, manual, stop, sigHandler, web,
                   main, dbClosed, panicked>>

\* manager.Update returns to the worker loop.
WorkerUpdateDone ==
    /\ alive /\ worker = "update"
    /\ worker' = "recv"
    /\ workerFeed' = 0
    /\ UNCHANGED <<pvars, hvars, tvars, fvars, enqueued, storageType, feeds, cronFeeds, updates, updatesClosed, sched,
                   schedTodo, schedFeed, cron, cronEntries, cronJob, manual, stop,
                   sigHandler, web, main, dbClosed, panicked>>

\* The worker's select takes <-ctx.Done() and the loop returns.
WorkerExit ==
    /\ alive /\ worker = "recv" /\ ctxDone
    /\ worker' = "done"
    /\ UNCHANGED <<pvars, hvars, tvars, fvars, enqueued, storageType, feeds, cronFeeds, updates, updatesClosed,
                   workerFeed, sched, schedTodo, schedFeed, cron, cronEntries, cronJob,
                   manual, stop, sigHandler, web, main, dbClosed, panicked>>

\* POST /feeds/{id}/refresh: the handler starts a goroutine that calls
\* updater.Update with context.Background().
RefreshFeed(f) ==
    /\ alive /\ web = "serving"
    /\ feeds # {} /\ f \in feeds
    /\ f \notin manual
    /\ manual' = manual \cup {f}
    /\ UNCHANGED <<pvars, hvars, tvars, fvars, enqueued, storageType, feeds, cronFeeds, updates, updatesClosed, worker,
                   workerFeed, sched, schedTodo, schedFeed, cron, cronEntries, cronJob,
                   stop, sigHandler, web, main, dbClosed, panicked>>

\* The Update of a refresh goroutine returns.
RefreshDone(f) ==
    /\ alive /\ f \in manual
    /\ manual' = manual \ {f}
    /\ UNCHANGED <<pvars, hvars, tvars, fvars, enqueued, storageType, feeds, cronFeeds, updates, updatesClosed, worker,
                   workerFeed, sched, schedTodo, schedFeed, cron, cronEntries, cronJob,
                   stop, sigHandler, web, main, dbClosed, panicked>>

\* SIGINT or SIGTERM is delivered to the stop channel.
Signal ==
    /\ alive /\ ~stop
    /\ stop' = TRUE
    /\ UNCHANGED <<pvars, hvars, tvars, fvars, enqueued, storageType, feeds, cronFeeds, updates, updatesClosed, worker,
                   workerFeed, sched, schedTodo, schedFeed, cron, cronEntries, cronJob,
                   manual, sigHandler, web, main, dbClosed, panicked>>

\* The signal goroutine receives from stop: cancel(), return, and the deferred
\* srv.Shutdown makes the listener return.
SignalHandler ==
    /\ alive /\ sigHandler = "wait" /\ stop
    /\ ctxDone' = TRUE
    /\ sigHandler' = "done"
    /\ web' = "done"
    /\ UNCHANGED <<cfg, feed, db, art, xml, xmlBuilds, hist, run, nruns, nops, locked, hvars, tvars, fvars, enqueued,
                   storageType, feeds, cronFeeds, updates, updatesClosed, worker,
                   workerFeed, sched, schedTodo, schedFeed, cron, cronEntries, cronJob,
                   manual, stop, main, dbClosed, panicked>>

\* The signal goroutine sees <-ctx.Done() (the group was cancelled by an error).
SignalHandlerCtxDone ==
    /\ alive /\ sigHandler = "wait" /\ ctxDone
    /\ sigHandler' = "done"
    /\ web' = "done"
    /\ UNCHANGED <<pvars, hvars, tvars, fvars, enqueued, storageType, feeds, cronFeeds, updates, updatesClosed, worker,
                   workerFeed, sched, schedTodo, schedFeed, cron, cronEntries, cronJob,
                   manual, stop, main, dbClosed, panicked>>

\* ListenAndServe returns an error: the errgroup cancels its context.
ListenError ==
    /\ alive /\ web = "serving"
    /\ web' = "done"
    /\ ctxDone' = TRUE
    /\ UNCHANGED <<cfg, feed, db, art, xml, xmlBuilds, hist, run, nruns, nops, locked, hvars, tvars, fvars, enqueued,
                   storageType, feeds, cronFeeds, updates, updatesClosed, worker,
                   workerFeed, sched, schedTodo, schedFeed, cron, cronEntries, cronJob,
                   manual, stop, sigHandler, main, dbClosed, panicked>>

\* main's deferred group.Wait() returns once every goroutine of the group has.
GroupWait ==
    /\ alive /\ main = "wait"
    /\ returned(worker) /\ returned(sched) /\ returned(web) /\ returned(sigHandler)
    /\ main' = "close"
    /\ ctxDone' = TRUE
    /\ UNCHANGED <<cfg, feed, db, art, xml, xmlBuilds, hist, run, nruns, nops, locked, hvars, tvars, fvars, enqueued,
                   storageType, feeds, cronFeeds, updates, updatesClosed, worker,
                   workerFeed, sched, schedTodo, schedFeed, cron, cronEntries, cronJob,
                   manual, stop, sigHandler, web, dbClosed, panicked>>

\* main's deferred close(updates).
CloseUpdates ==
    /\ alive /\ main = "close"
    /\ updatesClosed' = TRUE
    /\ main' = "closedb"
    /\ UNCHANGED <<pvars, hvars, tvars, fvars, enqueued, storageType, feeds, cronFeeds, updates, worker, workerFeed,
                   sched, schedTodo, schedFeed, cron, cronEntries, cronJob, manual, stop,
                   sigHandler, web, dbClosed, panicked>>

\* main's deferred database.Close(), after which main returns.
CloseDatabase ==
    /\ alive /\ main = "closedb"
    /\ dbClosed' = TRUE
    /\ main' = "exit"
    /\ UNCHANGED <<pvars, hvars, tvars, fvars, enqueued, storageType, feeds, cronFeeds, updates, updatesClosed, worker,
                   workerFeed, sched, schedTodo, schedFeed, cron, cronEntries, cronJob,
                   manual, stop, sigHandler, web, panicked>>

\* The state when main has started its goroutines and reached its end. With
\* storage type "s3" main returns before the listener and the signal goroutine
\* are started; without feeds the worker and the scheduler are not started.
InitSched ==
    /\ storageType \in {"local", "s3"}
    /\ feeds \in SUBSET AllFeeds
    /\ cronFeeds \in SUBSET feeds
    /\ updates = <<>>
    /\ updatesClosed = FALSE
    /\ worker = IF feeds = {} THEN "none" ELSE "recv"
    /\ workerFeed = 0
    /\ sched = IF feeds = {} THEN "none" ELSE "add"
    /\ schedTodo = feeds
    /\ schedFeed = 0
    /\ cron = "new"
    /\ cronEntries = {}
    /\ cronJob = [f \in AllFeeds |-> "idle"]
    /\ manual = {}
    /\ stop = FALSE
    /\ sigHandler = IF storageType = "s3" THEN "none" ELSE "wait"
    /\ web = IF storageType = "s3" THEN "none" ELSE "serving"
    /\ main = "wait"
    /\ dbClosed = FALSE
    /\ panicked = FALSE
    /\ enqueued = NoneEnqueued
    /\ cfg = [filters |-> [minDuration |-> 0], pageSize |-> 2, keepLast |-> 0]
    /\ feed = "absent"
    /\ db = [e \in Episodes |-> NoEpisode]
    /\ art = [e \in Episodes |-> 0]
    /\ xml = {}
    /\ xmlBuilds = 0
    /\ hist = <<>>
    /\ run = [r \in Runs |-> Idle]
    /\ ctxDone = FALSE
    /\ nruns = 0
    /\ nops = 0
    /\ locked = {}
    /\ HistoryEmpty
    /\ TrackerEmpty
    /\ StoreEmpty

NextSched ==
    \/ \E f \in AllFeeds : SchedAdd(f)
    \/ SchedKick
    \/ SchedStart
    \/ SchedStop
    \/ \E f \in AllFeeds : CronFire(f)
    \/ \E f \in AllFeeds : CronSend(f)
    \/ \E f \in AllFeeds : CronSendClosed(f)
    \/ WorkerReceive
    \/ WorkerUpdateDone
    \/ WorkerExit
    \/ \E f \in AllFeeds : RefreshFeed(f)
    \/ \E f \in AllFeeds : RefreshDone(f)
    \/ Signal
    \/ SignalHandler
    \/ SignalHandlerCtxDone
    \/ ListenError
    \/ GroupWait
    \/ CloseUpdates
    \/ CloseDatabase

SpecSched == InitSched /\ [][NextSched]_vars

\* Every goroutine that can take a step eventually does (the Go scheduler), a
\* running Update returns, and a select with a ready case eventually takes it.
\* Signals, timer fires, refresh requests and listener errors come from outside.
FairSched ==
    /\ SpecSched
    /\ WF_vars(\E f \in AllFeeds : SchedAdd(f))
    /\ WF_vars(SchedKick)
    /\ WF_vars(SchedStart)
    /\ WF_vars(SchedStop)
    /\ WF_vars(\E f \in AllFeeds : CronSend(f))
    /\ WF_vars(\E f \in AllFeeds : CronSendClosed(f))
    /\ WF_vars(WorkerReceive)
    /\ WF_vars(WorkerUpdateDone)
    /\ SF_vars(WorkerExit)
    /\ WF_vars(\E f \in AllFeeds : RefreshDone(f))
    /\ WF_vars(SignalHandler)
    /\ WF_vars(SignalHandlerCtxDone)
    /\ WF_vars(GroupWait)
    /\ WF_vars(CloseUpdates)
    /\ WF_vars(CloseDatabase)

\* C1: at every moment at most one Manager.Update is executing in the process:
\* the worker's update and the updates of refresh requests never overlap.
C1_SerialUpdates == updating <= 1

\* The context is cancelled, worker and scheduler have returned, the cron engine
\* is stopped, the queue is closed and the durable store is closed.
Graceful ==
    /\ ctxDone
    /\ returned(worker) /\ returned(sched)
    /\ cron # "started"
    /\ updatesClosed
    /\ dbClosed

\* C7: after SIGINT/SIGTERM the process eventually shuts down gracefully, for
\* every storage type, every set of configured feeds and every occupancy of the
\* queue, given that a running update returns.
C7_GracefulShutdown == stop ~> Graceful

\* Number of times f stands in the sequence q.
times(q, f) == Cardinality({i \in DOMAIN q : q[i] = f})

\* C27: a feed without a cron expression is put on the queue by the scheduler
\* loop exactly once, and that before the cron engine is started, so before any
\* timer fire; a feed with a cron expression is never put on the queue by the
\* loop, and is not on the queue or with the worker before a tick of its own
\* entry has sent it.
C27_BootKick ==
    /\ \A f \in feeds \ cronFeeds :
           /\ times(enqueued.kicks, f) <= 1
           /\ cron # "new" => times(enqueued.kicks, f) = 1
    /\ \A f \in cronFeeds :
           /\ times(enqueued.kicks, f) = 0
           /\ f \notin enqueued.ticks => times(updates, f) = 0 /\ workerFeed # f
    /\ cron = "new" => enqueued.ticks = {}

\* The engine runs, the feed without a cron expression had its kick and the
\* feed with one was sent by its first tick.
C27_Witness ==
    /\ cron = "started"
    /\ \E f \in feeds \ cronFeeds, g \in cronFeeds :
           /\ times(enqueued.kicks, f) = 1
           /\ g \in enqueued.ticks
           /\ times(updates, g) = 1

\* C28: while the worker executes the run of a feed that its cron entry put on
\* the queue, no step puts that feed on the queue again: a fire of the entry
\* during the run is dropped.
C28_FireDuringRunDropped ==
    [][\A f \in cronFeeds :
          (worker = "update" /\ workerFeed = f) =>
              times(updates', f) <= times(updates, f)]_vars

\* ------------------------------------------------ feed removal at run time
\* The store of the pipeline variables (feed, db) is the store of feed 1.

\* DELETE /feeds/{id}: the records are removed from the store and the ID from
\* the feeds map. The map is cfg.Feeds itself, which the scheduler goroutine
\* ranges over without a lock: during the range the delete may or may not be
\* seen by it, or the runtime ends the process. The cron entries and the
\* configurations their jobs captured are left as they are.
FeedsHandlerDeleteFeed(f) ==
    /\ alive /\ web = "serving"
    /\ f \in feeds
    /\ feeds' = feeds \ {f}
    /\ IF f = 1
       THEN feed' = "absent" /\ db' = DeleteFeed(db)
       ELSE UNCHANGED <<feed, db>>
    /\ schedTodo' \in {schedTodo, schedTodo \ {f}}
    /\ panicked' \in (IF sched \in {"add", "kick"} THEN BOOLEAN ELSE {FALSE})
    /\ quiet' = IF /\ f \notin schedTodo' /\ schedFeed # f
                   /\ \A i \in DOMAIN updates : updates[i] # f
                   /\ cronJob[f] = "idle"
                   /\ workerFeed # f /\ f \notin manual
                THEN quiet \cup {f} ELSE quiet
    /\ UNCHANGED <<cfg, art, xml, xmlBuilds, hist, run, ctxDone, nruns, nops, locked,
                   hvars, tvars, file, copy, probed, served, invoke, requests,
                   enqueued, storageType, cronFeeds, updates, updatesClosed, worker,
                   workerFeed, sched, schedFeed, cron, cronEntries, cronJob, manual,
                   stop, sigHandler, web, main, dbClosed>>

\* updateFeed of a running Update of feed 1 stores the feed record (AddFeed).
UpdateStoresFeed ==
    /\ alive
    /\ (worker = "update" /\ workerFeed = 1) \/ 1 \in manual
    /\ feed' = "full"
    /\ UNCHANGED <<svars, hvars, tvars, fvars, cfg, db, art, xml, xmlBuilds, hist, run,
                   ctxDone, nruns, nops, locked>>

NextCron ==
    \/ NextSched
    \/ \E f \in AllFeeds : FeedsHandlerDeleteFeed(f)
    \/ UpdateStoresFeed

SpecCron == InitSched /\ [][NextCron]_vars

\* C39: a feed that was deleted through the API while none of its work was
\* queued or running is not updated again by the worker (an Update of it could
\* only come from a later scheduled fire), and the feed record stays absent.
C39_DeletedFeedStaysGone ==
    \A f \in quiet :
        /\ ~(worker = "update" /\ workerFeed = f)
        /\ f = 1 => feed = "absent"

\* C34: once the root context is cancelled the worker loop starts no further
\* feed update, whatever still waits in the queue.
C34_NoUpdateAfterCancel ==
    [][ctxDone => ~(worker = "recv" /\ worker' = "update")]_vars

\* C40: when the store is closed no Update runs any more, neither the worker's
\* nor one started by a manual refresh.
C40_UpdatesEndBeforeClose ==
    dbClosed => (worker # "update" /\ manual = {})

\* =========================================================== history store
MaxHistOps == 5
MaxRetention == 1
MaxKeep == 2
MaxPage == 3
MaxPageSize == 2

\* Keys compare bytewise: by the timestamp first, then by the uuid.
keyLess(a, b) == a[1] < b[1] \/ (a[1] = b[1] /\ a[2] < b[2])

\* The history IDs in set, in the order of a reverse iteration (largest key first).
RECURSIVE keysDesc(_)
keysDesc(set) ==
    IF set = {} THEN <<>>
    ELSE LET top == CHOOSE h \in set : \A o \in set \ {h} : keyLess(o, h)
         IN  <<top>> \o keysDesc(set \ {top})

stored(t) == {h \in HIds : t[h].status # "absent"}

\* The history IDs a scan visits: the feed index of the filter's feed if it
\* has one (0 = no feed filter), the main table otherwise.
scanned(t, ix, feedID) ==
    IF feedID # 0 THEN keysDesc({k[2] : k \in {x \in ix : x[1] = feedID}})
    ELSE keysDesc(stored(t))

\* The characters of titles and search strings.
Chars == {"a", "b", "A"}

toLower(c) == IF c = "A" THEN "a" ELSE c

simpleContains(s, substr) ==
    \E i \in 0..(Len(s) - Len(substr)) : SubSeq(s, i + 1, i + Len(substr)) = substr

\* A substring test that looks at every position.
containsAnywhere(s, substr) == simpleContains(s, substr)

contains(s, substr) ==
    /\ Len(s) >= Len(substr)
    /\ \/ s = substr
       \/ Len(substr) = 0
       \/ /\ Len(s) > 0 /\ (s[1] = substr[1] \/ toLower(s[1]) = toLower(substr[1]))
          /\ (Len(s) = 0 \/ Len(substr) = 0 \/ simpleContains(s, substr))

\* The iterator callback of ListHistory over the scanned IDs from position i.
\* search: the title substring of the filters, empty = none.
RECURSIVE listFrom(_, _, _, _, _, _, _)
listFrom(t, ids, i, search, skip, pageSize, acc) ==
    IF i > Len(ids) THEN acc
    ELSE IF t[ids[i]].status = "absent"
         THEN [acc EXCEPT !.ok = FALSE]
    ELSE IF search # <<>> /\ t[ids[i]].title # <<>> /\ ~contains(t[ids[i]].title, search)
         THEN listFrom(t, ids, i + 1, search, skip, pageSize, acc)
    ELSE LET total == acc.total + 1
         IN  IF total <= skip
             THEN listFrom(t, ids, i + 1, search, skip, pageSize,
                           [acc EXCEPT !.total = total])
             ELSE listFrom(t, ids, i + 1, search, skip, pageSize,
                           [acc EXCEPT !.total = total,
                                       !.entries = Append(@, ids[i])])

ListHistory(t, ix, feedID, search, page, pageSize) ==
    listFrom(t, scanned(t, ix, feedID), 1, search, (page - 1) * pageSize, pageSize,
             [entries |-> <<>>, total |-> 0, ok |-> TRUE])

\* The entries CleanupHistory marks, scanning ids from position i.
RECURSIVE markFrom(_, _, _, _, _, _)
markFrom(t, ids, i, retentionDays, maxEntries, now) ==
    IF i > Len(ids) THEN {}
    ELSE LET rest == markFrom(t, ids, i + 1, retentionDays, maxEntries, now)
         IN  IF retentionDays = 0 /\ maxEntries = 0 THEN {ids[i]} \cup rest
             ELSE IF retentionDays > 0 /\ t[ids[i]].start < now - retentionDays * Day
                  THEN {ids[i]} \cup rest
             ELSE IF maxEntries > 0 /\ i > maxEntries THEN {ids[i]} \cup rest
             ELSE rest

entriesToDelete(t, retentionDays, maxEntries, now) ==
    markFrom(t, keysDesc(stored(t)), 1, retentionDays, maxEntries, now)

\* A DeleteHistory that leaves the feed index alone.
unindexNone(t, ix, ids) == ix

\* DeleteHistory applied to every ID of ids: the entry and its feed-index key.
deleteAll(t, ids) == [h \in HIds |-> IF h \in ids THEN NoEntry ELSE t[h]]
unindexAll(t, ix, ids) == {k \in ix : ~(k[2] \in ids /\ k[1] = t[k[2]].feed)}

\* The history manager logs a job of feed f: the ID is the time and a fresh uuid.
AddHistory(f, tag, title) ==
    /\ hops < MaxHistOps
    /\ historyTable[<<clock, tag>>].status = "absent"
    /\ historyTable' = [historyTable EXCEPT
                          ![<<clock, tag>>] = [feed |-> f, start |-> clock,
                                               seq |-> hops + 1,
                                               status |-> "running",
                                               title |-> title]]
    /\ feedIndex' = feedIndex \cup {<<f, <<clock, tag>>>>}
    /\ call' = [op |-> "add", id |-> <<clock, tag>>]
    /\ hops' = hops + 1
    /\ UNCHANGED <<pvars, svars, tvars, fvars, clock>>

\* The close-out of a job: the callback sets status, end time and statistics.
UpdateHistory(h, status) ==
    /\ hops < MaxHistOps
    /\ IF historyTable[h].status = "absent"
       THEN historyTable' = historyTable
       ELSE historyTable' = [historyTable EXCEPT ![h].status = status]
    /\ call' = [op |-> "update", id |-> h]
    /\ hops' = hops + 1
    /\ UNCHANGED <<pvars, svars, tvars, fvars, feedIndex, clock>>

DeleteHistory(h) ==
    /\ hops < MaxHistOps
    /\ historyTable' = deleteAll(historyTable, {h})
    /\ feedIndex' = unindexAll(historyTable, feedIndex, {h} \cap stored(historyTable))
    /\ call' = [op |-> "delete", id |-> h]
    /\ hops' = hops + 1
    /\ UNCHANGED <<pvars, svars, tvars, fvars, clock>>

CleanupHistory(retentionDays, maxEntries) ==
    /\ hops < MaxHistOps
    /\ LET ids == entriesToDelete(historyTable, retentionDays, maxEntries, clock)
       IN  /\ historyTable' = deleteAll(historyTable, ids)
           /\ feedIndex' = unindexAll(historyTable, feedIndex, ids)
           /\ call' = [op |-> "cleanup", retentionDays |-> retentionDays,
                       maxEntries |-> maxEntries, deleted |-> ids]
    /\ hops' = hops + 1
    /\ UNCHANGED <<pvars, svars, tvars, fvars, clock>>

\* GET /history: the handler passes page and page_size on and returns what
\* the store returned.
ListHistoryRequest(feedID, search, page, pageSize) ==
    /\ hops < MaxHistOps
    /\ call' = [op |-> "list", feed |-> feedID, search |-> search,
                page |-> page, pageSize |-> pageSize,
                result |-> ListHistory(historyTable, feedIndex, feedID, search,
                                       page, pageSize)]
    /\ hops' = hops + 1
    /\ UNCHANGED <<pvars, svars, tvars, fvars, historyTable, feedIndex, clock>>

\* A second passes.
Tick ==
    /\ clock < MaxClock
    /\ clock' = clock + 1
    /\ UNCHANGED <<pvars, svars, tvars, fvars, historyTable, feedIndex, call, hops>>

InitHist ==
    /\ SchedIdle
    /\ cfg = [filters |-> [minDuration |-> 0], pageSize |-> 2, keepLast |-> 0]
    /\ feed = "absent"
    /\ db = [e \in Episodes |-> NoEpisode]
    /\ art = [e \in Episodes |-> 0]
    /\ xml = {}
    /\ xmlBuilds = 0
    /\ hist = <<>>
    /\ run = [r \in Runs |-> Idle]
    /\ ctxDone = FALSE
    /\ nruns = 0
    /\ nops = 0
    /\ locked = {}
    /\ HistoryEmpty
    /\ TrackerEmpty
    /\ StoreEmpty

NextHist ==
    \/ \E f \in AllFeeds, tag \in 1..NumTags : AddHistory(f, tag, <<>>)
    \/ \E h \in HIds, status \in {"success", "failed"} : UpdateHistory(h, status)
    \/ \E h \in HIds : DeleteHistory(h)
    \/ \E r \in 0..MaxRetention, m \in 0..MaxKeep : CleanupHistory(r, m)
    \/ \E f \in {0} \cup AllFeeds, p \in 1..MaxPage, s \in 1..MaxPageSize :
          ListHistoryRequest(f, <<>>, p, s)
    \/ Tick

SpecHist == InitHist /\ [][NextHist]_vars

\* ------------------------------------------------ history store properties
\* The stored history IDs in the order of their keys, largest first.
byKey == keysDesc(stored(historyTable))

\* The stored history IDs by recency, the latest start time first.
RECURSIVE startDesc(_)
startDesc(set) ==
    IF set = {} THEN <<>>
    ELSE LET top == CHOOSE h \in set :
                        \A o \in set : historyTable[o].seq <= historyTable[h].seq
         IN  <<top>> \o startDesc(set \ {top})

byRecency == startDesc(stored(historyTable))

Min(a, b) == IF a < b THEN a ELSE b

\* C18: for N stored entries and no filters, ListHistory(page = p, page_size = s)
\* returns exactly the entries ranked (p-1)*s+1 to min(p*s, N) by recency,
\* newest first, never more than s entries, with total = N.
C18_Pagination ==
    (call.op = "list" /\ call.feed = 0 /\ call.search = <<>>) =>
        LET n == Len(byRecency)
        IN  /\ call.result.ok
            /\ call.result.total = n
            /\ Len(call.result.entries) <= call.pageSize
            /\ call.result.entries =
                  SubSeq(byRecency, (call.page - 1) * call.pageSize + 1,
                         Min(call.page * call.pageSize, n))

\* C19: CleanupHistory(R, M) keeps every entry that is not older than now minus
\* R days and is among the M newest; it deletes every entry older than R days
\* when R > 0 and every entry beyond the M newest when M > 0, so that at most M
\* remain; CleanupHistory(0, 0) deletes all entries; the feed-index key of every
\* deleted entry goes with it, and what is kept is left as it was.
C19_CleanupHistory ==
    [][(call'.op = "cleanup" /\ hops' = hops + 1) =>
         LET R == call'.retentionDays
             M == call'.maxEntries
             before == stored(historyTable)
             after == stored(historyTable')
             rank(h) == 1 + Cardinality({o \in before :
                                            historyTable[o].seq > historyTable[h].seq})
             older(h) == historyTable[h].start < clock - R * Day
         IN  /\ after \subseteq before
             /\ \A h \in after : historyTable'[h] = historyTable[h]
             /\ \A h \in before : (~older(h) /\ rank(h) <= M) => h \in after
             /\ R > 0 => \A h \in before : older(h) => h \notin after
             /\ M > 0 => /\ \A h \in before : rank(h) > M => h \notin after
                         /\ Cardinality(after) <= M
             /\ (R = 0 /\ M = 0) => after = {}
             /\ feedIndex' = {k \in feedIndex : k[2] \in after}]_vars

\* The entries of feed f among ids, in the order of ids.
RECURSIVE restrict(_, _)
restrict(ids, f) ==
    IF ids = <<>> THEN <<>>
    ELSE IF historyTable[Head(ids)].feed = f
         THEN <<Head(ids)>> \o restrict(Tail(ids), f)
         ELSE restrict(Tail(ids), f)

\* C20: after any sequence of AddHistory, UpdateHistory, DeleteHistory and
\* CleanupHistory, an index key history_feed/<F>/<H> exists if and only if the
\* entry history/<H> exists and has feed F, and ListHistory with feed filter F
\* succeeds and returns entries of feed F only, in the order of the unfiltered
\* listing restricted to F, from the first entry of the page on, with the
\* number of entries of F as total.
C20_FeedIndex ==
    /\ \A f \in AllFeeds, h \in HIds :
          <<f, h>> \in feedIndex <=>
              (historyTable[h].status # "absent" /\ historyTable[h].feed = f)
    /\ (call.op = "list" /\ call.feed # 0 /\ call.search = <<>>) =>
          LET ofFeed == restrict(byKey, call.feed)
              skip == (call.page - 1) * call.pageSize
              got == call.result.entries
          IN  /\ call.result.ok
              /\ call.result.total = Len(ofFeed)
              /\ got = SubSeq(ofFeed, skip + 1, skip + Len(got))
              /\ Len(got) >= Min(call.pageSize, Len(ofFeed) - skip)

\* A listing of one feed's entries while the store holds an entry of another
\* feed between them.
C20_Witness ==
    /\ call.op = "list" /\ call.feed # 0 /\ call.page = 1
    /\ Len(call.result.entries) = 2
    /\ \E h \in stored(historyTable) :
          /\ historyTable[h].feed # call.feed
          /\ keyLess(call.result.entries[2], h)
          /\ keyLess(h, call.result.entries[1])

\* C22: for any two history entries, the order of their IDs is the order of
\* their start times, so that a reverse key scan lists the newest first.
C22_IdOrderIsTimeOrder ==
    \A h, o \in stored(historyTable) :
        keyLess(h, o) <=> historyTable[h].seq < historyTable[o].seq

\* ------------------------------------------------ history search
\* Episode jobs with titles and listings with a title filter; all entries are
\* logged within one second.
MaxTitleLen == 2

RECURSIVE strings(_)
strings(n) ==
    IF n = 0 THEN {<<>>}
    ELSE strings(n - 1) \cup {Append(x, c) : x \in strings(n - 1), c \in Chars}

Titles == strings(MaxTitleLen)

NextSearch ==
    \/ \E f \in AllFeeds, tag \in 1..NumTags, title \in Titles : AddHistory(f, tag, title)
    \/ \E search \in Titles \ {<<>>} : ListHistoryRequest(0, search, 1, MaxPageSize)

SpecSearch == InitHist /\ [][NextSearch]_vars

\* C21: with a non-empty title filter S, ListHistory returns exactly the
\* entries whose title contains S as a substring at any position, and counts
\* them in total.
C21_TitleSearch ==
    (call.op = "list" /\ call.search # <<>>) =>
        LET matching == {h \in stored(historyTable) :
                            containsAnywhere(historyTable[h].title, call.search)}
        IN  /\ call.result.total = Cardinality(matching)
            /\ {call.result.entries[i] : i \in DOMAIN call.result.entries} = matching

\* ------------------------------------------------------- progress tracker
\* The tracker of pkg/progress as downloadEpisodes, the downloader's progress
\* callback and the progress endpoints use it, for one feed.

MaxList == 2       \* episodes one downloadEpisodes call has to download, at most
MaxTrackOps == 2   \* downloadEpisodes and RetryEpisode calls

\* The percentages yt-dlp prints.
Percents == {50, 100}

\* The lists a call may hold: the two calls of one feed select independently
\* (each reads the store before either marks its list), so lists may overlap.
downloadLists ==
    {l \in UNION {[1..n -> Episodes] : n \in 1..MaxList} :
        \A i, k \in DOMAIN l : i < k => l[i] < l[k]}

Tracker == [feed |-> feedProgress, episodes |-> episodeProgress]

RECURSIVE sumPercent(_, _)
sumPercent(eps, set) ==
    IF set = {} THEN 0
    ELSE LET e == CHOOSE x \in set : TRUE
         IN  (IF eps[e].present THEN eps[e].percent ELSE 0) + sumPercent(eps, set \ {e})

\* Tracker.updateFeedPercent: (completed + sum of Percent/100) / total * 100.
\* With totals up to 2 and percentages in steps of 50 the quotient is exact.
updateFeedPercent(fp, eps) ==
    IF fp.total = 0 THEN [fp EXCEPT !.percent = 0]
    ELSE [fp EXCEPT !.percent = (fp.completed * 100 + sumPercent(eps, Episodes)) \div fp.total]

InitFeedProgress(t, total) ==
    [t EXCEPT !.feed = [NoFeedProgress EXCEPT !.present = TRUE, !.total = total]]

QueueEpisodes(t, count) ==
    IF t.feed.present
    THEN [t EXCEPT !.feed = updateFeedPercent([@ EXCEPT !.queued = @ + count], t.episodes)]
    ELSE t

StartEpisode(t, e) ==
    LET eps == [t.episodes EXCEPT ![e] =
                   [present |-> TRUE, stage |-> "downloading", percent |-> 0]]
    IN  [feed |-> IF t.feed.present
                  THEN updateFeedPercent(
                           [t.feed EXCEPT !.downloading = @ + 1,
                                          !.queued = IF @ > 0 THEN @ - 1 ELSE @], eps)
                  ELSE t.feed,
         episodes |-> eps]

\* Creates the record when there is none, and stores what it is given.
UpdateEpisode(t, e, stage, percent) ==
    [t EXCEPT !.episodes[e] = [present |-> TRUE, stage |-> stage, percent |-> percent]]

CompleteEpisode(t, e) ==
    LET eps == [t.episodes EXCEPT ![e] = NoEpisodeProgress]
    IN  [feed |-> IF t.feed.present
                  THEN updateFeedPercent(
                           [t.feed EXCEPT !.downloading = IF @ > 0 THEN @ - 1 ELSE @,
                                          !.completed = @ + 1], eps)
                  ELSE t.feed,
         episodes |-> eps]

ClearFeed(t) ==
    [feed |-> NoFeedProgress, episodes |-> [e \in Episodes |-> NoEpisodeProgress]]

\* The tracker contents a frame in the making has lived through: what a
\* single-moment frame is compared with.
seen(t) ==
    IF reader.pc = "idle" THEN reader ELSE [reader EXCEPT !.moments = @ \cup {t}]

setTracker(t) ==
    /\ feedProgress' = t.feed
    /\ episodeProgress' = t.episodes
    /\ reader' = seen(t)

\* downloadEpisodes with a non-empty list: InitFeedProgress, defer ClearFeed.
DownloadsInit(r, list) ==
    /\ dl[r].pc = "idle"
    /\ tops < MaxTrackOps
    /\ tops' = tops + 1
    /\ dl' = [dl EXCEPT ![r] = [pc |-> "queue", todo |-> list]]
    /\ setTracker(InitFeedProgress(Tracker, Len(list)))
    /\ UNCHANGED <<pvars, svars, hvars, fvars, progressCallback, updateLock, frame>>

\* The list is marked queued in the store, then QueueEpisodes.
DownloadsQueue(r) ==
    /\ dl[r].pc = "queue"
    /\ dl' = [dl EXCEPT ![r].pc = "loop"]
    /\ setTracker(QueueEpisodes(Tracker, Len(dl[r].todo)))
    /\ UNCHANGED <<pvars, svars, hvars, fvars, progressCallback, updateLock, frame, tops>>

\* The artifact is in the store already: the record is set downloaded, continue.
DownloadsSkip(r) ==
    /\ dl[r].pc = "loop"
    /\ dl[r].todo # <<>>
    /\ dl' = [dl EXCEPT ![r].todo = Tail(@)]
    /\ UNCHANGED <<pvars, svars, hvars, fvars, feedProgress, episodeProgress, progressCallback,
                   updateLock, reader, frame, tops>>

\* The store fails to tell whether the artifact is there, or the record cannot
\* be written: return.
DownloadsStatError(r) ==
    /\ dl[r].pc = "loop"
    /\ dl[r].todo # <<>>
    /\ dl' = [dl EXCEPT ![r].pc = "return"]
    /\ UNCHANGED <<pvars, svars, hvars, fvars, feedProgress, episodeProgress, progressCallback,
                   updateLock, reader, frame, tops>>

\* StartEpisode, then SetProgressCallback on the one downloader: the field is
\* written with no lock held, whoever is downloading.
DownloadsStart(r) ==
    /\ dl[r].pc = "loop"
    /\ dl[r].todo # <<>>
    /\ dl' = [dl EXCEPT ![r].pc = "lock"]
    /\ setTracker(StartEpisode(Tracker, Head(dl[r].todo)))
    /\ progressCallback' = Head(dl[r].todo)
    /\ UNCHANGED <<pvars, svars, hvars, fvars, updateLock, frame, tops>>

\* Download: updateLock.Lock(), yt-dlp is started.
DownloadsLock(r) ==
    /\ dl[r].pc = "lock"
    /\ updateLock.holder = "none"
    /\ updateLock' = [Unlocked EXCEPT !.holder = r]
    /\ dl' = [dl EXCEPT ![r].pc = "download"]
    /\ UNCHANGED <<pvars, svars, hvars, fvars, feedProgress, episodeProgress, progressCallback,
                   reader, frame, tops>>

\* A line of the running yt-dlp: percentages that do not fall, then the
\* post-processing lines. The callback in the field when the line is read is
\* the one that is called.
parseProgressLine(stage, percent) ==
    /\ updateLock.holder # "none"
    /\ IF stage = "downloading"
       THEN updateLock.stage # "encoding" /\ percent >= updateLock.percent
       ELSE percent = 100
    /\ updateLock' = [updateLock EXCEPT !.stage = stage, !.percent = percent]
    /\ IF progressCallback # 0
       THEN setTracker(UpdateEpisode(Tracker, progressCallback, stage, percent))
       ELSE UNCHANGED <<feedProgress, episodeProgress, reader>>
    /\ UNCHANGED <<pvars, svars, hvars, fvars, progressCallback, dl, frame, tops>>

\* Download returned a file and it was stored: CompleteEpisode.
DownloadsOk(r) ==
    /\ dl[r].pc = "download"
    /\ updateLock.holder = r
    /\ updateLock' = Unlocked
    /\ dl' = [dl EXCEPT ![r] = [pc |-> "loop", todo |-> Tail(@.todo)]]
    /\ setTracker(CompleteEpisode(Tracker, Head(dl[r].todo)))
    /\ UNCHANGED <<pvars, svars, hvars, fvars, progressCallback, frame, tops>>

\* Download failed: the record is set to error, continue.
DownloadsFailed(r) ==
    /\ dl[r].pc = "download"
    /\ updateLock.holder = r
    /\ updateLock' = Unlocked
    /\ dl' = [dl EXCEPT ![r] = [pc |-> "loop", todo |-> Tail(@.todo)]]
    /\ UNCHANGED <<pvars, svars, hvars, fvars, feedProgress, episodeProgress, progressCallback,
                   reader, frame, tops>>

\* Too Many Requests (break), or the file could not be stored (return).
DownloadsHalt(r) ==
    /\ dl[r].pc = "download"
    /\ updateLock.holder = r
    /\ updateLock' = Unlocked
    /\ dl' = [dl EXCEPT ![r].pc = "return"]
    /\ UNCHANGED <<pvars, svars, hvars, fvars, feedProgress, episodeProgress, progressCallback,
                   reader, frame, tops>>

\* The call returns: the deferred ClearFeed.
DownloadsReturn(r) ==
    /\ \/ dl[r].pc = "return"
       \/ dl[r].pc = "loop" /\ dl[r].todo = <<>>
    /\ dl' = [dl EXCEPT ![r] = NoDownloads]
    /\ setTracker(ClearFeed(Tracker))
    /\ UNCHANGED <<pvars, svars, hvars, fvars, progressCallback, updateLock, frame, tops>>

\* RetryEpisode's Download: the same downloader, no callback set by it.
RetryLock ==
    /\ updateLock.holder = "none"
    /\ tops < MaxTrackOps
    /\ tops' = tops + 1
    /\ updateLock' = [Unlocked EXCEPT !.holder = "retry"]
    /\ UNCHANGED <<pvars, svars, hvars, fvars, feedProgress, episodeProgress, progressCallback,
                   dl, reader, frame>>

RetryUnlock ==
    /\ updateLock.holder = "retry"
    /\ updateLock' = Unlocked
    /\ UNCHANGED <<pvars, svars, hvars, fvars, feedProgress, episodeProgress, progressCallback,
                   dl, reader, frame, tops>>

\* sendProgressEvent, first read: GetAllFeedProgress (GetFeedProgress).
sendProgressFeeds ==
    /\ reader.pc = "idle"
    /\ ~frame.built
    /\ reader' = [pc |-> "episodes", feeds |-> feedProgress, moments |-> {Tracker}]
    /\ UNCHANGED <<pvars, svars, hvars, fvars, feedProgress, episodeProgress, progressCallback,
                   updateLock, dl, frame, tops>>

\* Second read: GetAllEpisodeProgress (GetEpisodesForFeed); the frame is sent.
\* atOnce: the tracker held exactly the frame's content at some moment of the call.
sendProgressEpisodes ==
    /\ reader.pc = "episodes"
    /\ frame' = [built |-> TRUE, feeds |-> reader.feeds, episodes |-> episodeProgress,
                 atOnce |-> [feed |-> reader.feeds, episodes |-> episodeProgress]
                                \in reader.moments]
    /\ reader' = NoReader
    /\ UNCHANGED <<pvars, svars, hvars, fvars, feedProgress, episodeProgress, progressCallback,
                   updateLock, dl, tops>>

NextTrack ==
    \/ \E r \in Runs, list \in downloadLists : DownloadsInit(r, list)
    \/ \E r \in Runs : DownloadsQueue(r)
    \/ \E r \in Runs : DownloadsSkip(r)
    \/ \E r \in Runs : DownloadsStatError(r)
    \/ \E r \in Runs : DownloadsStart(r)
    \/ \E r \in Runs : DownloadsLock(r)
    \/ \E stage \in {"downloading", "encoding"}, percent \in Percents :
           parseProgressLine(stage, percent)
    \/ \E r \in Runs : DownloadsOk(r)
    \/ \E r \in Runs : DownloadsFailed(r)
    \/ \E r \in Runs : DownloadsHalt(r)
    \/ \E r \in Runs : DownloadsReturn(r)
    \/ RetryLock
    \/ RetryUnlock

SpecTrack == InitHist /\ [][NextTrack]_vars

\* C23: every FeedProgress has completed_count + downloading_count at most
\* total_episodes and an overall_percent between 0 and 100, whatever the
\* interleaving of the calls.
C23_FeedProgressBounds ==
    feedProgress.present =>
        /\ feedProgress.completed + feedProgress.downloading <= feedProgress.total
        /\ 0 <= feedProgress.percent
        /\ feedProgress.percent <= 100


\* C24: for each episode the reported percentage does not fall while the stage
\* is downloading, the stage then becomes encoding, and the record is then
\* removed: no step takes a record back from encoding to downloading.
C24_EpisodeProgressOrder ==
    [][\A e \in Episodes :
          (episodeProgress[e].present /\ episodeProgress'[e].present) =>
              IF episodeProgress[e].stage = "encoding"
              THEN episodeProgress'[e].stage = "encoding"
              ELSE episodeProgress'[e].stage = "downloading" =>
                       episodeProgress'[e].percent >= episodeProgress[e].percent]_vars

\* The episode a downloadEpisodes call is downloading or encoding, 0 = none.
processing(r) ==
    IF dl[r].pc \in {"lock", "download"} THEN Head(dl[r].todo) ELSE 0

\* C25: while no update of the feed is downloading, the tracker holds no
\* FeedProgress and no EpisodeProgress of the feed; an EpisodeProgress exists
\* only while its episode is being downloaded or encoded, and is gone once the
\* processing of the episode has ended, in success or in failure.
C25_NoLeftoverProgress ==
    /\ (\A r \in Runs : dl[r].pc = "idle") =>
           /\ ~feedProgress.present
           /\ \A e \in Episodes : ~episodeProgress[e].present
    /\ \A e \in Episodes :
           episodeProgress[e].present => \E r \in Runs : processing(r) = e

\* C36: a progress line of the download a downloadEpisodes call holds the lock
\* for changes the EpisodeProgress of the episode that call is downloading,
\* and of no other episode.
C36_ProgressOfOwnEpisode ==
    [][\A e \in Episodes :
         (/\ updateLock.holder \in Runs
          /\ updateLock'.holder = updateLock.holder
          /\ updateLock' # updateLock
          /\ episodeProgress'[e] # episodeProgress[e])
         => processing(updateLock.holder) = e]_vars

\* ------------------------------------------------------- progress frames
\* One downloadEpisodes call, and one request of a frame while it runs.
NextFrames ==
    \/ \E list \in downloadLists : tops = 0 /\ DownloadsInit("worker", list)
    \/ DownloadsQueue("worker")
    \/ DownloadsSkip("worker")
    \/ DownloadsStatError("worker")
    \/ DownloadsStart("worker")
    \/ DownloadsLock("worker")
    \/ \E stage \in {"downloading", "encoding"}, percent \in Percents :
           parseProgressLine(stage, percent)
    \/ DownloadsOk("worker")
    \/ DownloadsFailed("worker")
    \/ DownloadsHalt("worker")
    \/ DownloadsReturn("worker")
    \/ sendProgressFeeds
    \/ sendProgressEpisodes

SpecFrames == InitHist /\ [][NextFrames]_vars

\* C26: a frame of GET /progress or of the stream is the content of the
\* tracker at one moment, and every episode in a frame belongs to a feed whose
\* FeedProgress is in the same frame.
C26_FrameIsSnapshot ==
    frame.built =>
        /\ frame.atOnce
        /\ \A e \in Episodes : frame.episodes[e].present => frame.feeds.present

\* C37: while the one downloadEpisodes call is in its loop, downloading_count
\* is the number of episodes in flight, queued + downloading + completed is
\* total_episodes, and only the episode in flight has an EpisodeProgress (a
\* failed episode has none and is not counted as downloading).
C37_CountsMatchLoop ==
    (feedProgress.present /\ dl["worker"].pc \in {"loop", "lock", "download"}) =>
        /\ feedProgress.downloading = (IF processing("worker") # 0 THEN 1 ELSE 0)
        /\ feedProgress.queued + feedProgress.downloading + feedProgress.completed
               = feedProgress.total
        /\ \A e \in Episodes : episodeProgress[e].present => processing("worker") = e

\* ------------------------------------------------------- local artifact store
\* Local.Create, Local.Size and Local.Open on the files of one feed.

FileBlocks == 2    \* length of a complete artifact, in blocks of the copy

\* Create: MkdirAll, then copyFile opens the destination path itself with
\* os.Create, which makes the file or truncates the one that is there.
CreateOpen(r, e) ==
    /\ copy[r].pc = "idle"
    /\ file' = [file EXCEPT ![e] = [exists |-> TRUE, bytes |-> 0]]
    /\ copy' = [copy EXCEPT ![r] = [pc |-> "copy", e |-> e, off |-> 0]]
    /\ UNCHANGED <<pvars, svars, hvars, tvars, probed, served, invoke, requests, quiet>>

\* io.Copy writes the next block at the writer's offset.
CopyBlock(r) ==
    /\ copy[r].pc = "copy"
    /\ copy[r].off < FileBlocks
    /\ copy' = [copy EXCEPT ![r].off = @ + 1]
    /\ file' = [file EXCEPT ![copy[r].e] =
                  [exists |-> TRUE,
                   bytes |-> IF @.exists /\ @.bytes > copy[r].off + 1
                             THEN @.bytes ELSE copy[r].off + 1]]
    /\ UNCHANGED <<pvars, svars, hvars, tvars, probed, served, invoke, requests, quiet>>

\* io.Copy reached the end of the source: dest.Close(), written is returned.
CreateDone(r) ==
    /\ copy[r].pc = "copy"
    /\ copy[r].off = FileBlocks
    /\ copy' = [copy EXCEPT ![r] = NoCopy]
    /\ UNCHANGED <<pvars, svars, hvars, tvars, file, probed, served, invoke, requests, quiet>>

\* io.Copy fails: dest.Close(), the error is returned, the file stays.
CreateFail(r) ==
    /\ copy[r].pc = "copy"
    /\ copy[r].off < FileBlocks
    /\ copy' = [copy EXCEPT ![r] = NoCopy]
    /\ UNCHANGED <<pvars, svars, hvars, tvars, file, probed, served, invoke, requests, quiet>>

\* The probe of downloadEpisodes: fs.Size without error sets the episode to
\* downloaded with the size it found.
ProbeSize(e) ==
    /\ file[e].exists
    /\ probed' = [e |-> e, bytes |-> file[e].bytes]
    /\ UNCHANGED <<pvars, svars, hvars, tvars, file, copy, served, invoke, requests, quiet>>

\* A client gets the file: Local.Open on the path.
ServeFile(e) ==
    /\ file[e].exists
    /\ served' = [e |-> e, bytes |-> file[e].bytes]
    /\ UNCHANGED <<pvars, svars, hvars, tvars, file, copy, probed, invoke, requests, quiet>>

NextStore ==
    \/ \E r \in Runs, e \in Episodes : CreateOpen(r, e)
    \/ \E r \in Runs : CopyBlock(r)
    \/ \E r \in Runs : CreateDone(r)
    \/ \E r \in Runs : CreateFail(r)
    \/ \E e \in Episodes : ProbeSize(e)
    \/ \E e \in Episodes : ServeFile(e)

SpecStore == InitHist /\ [][NextStore]_vars

\* C31: at every moment a path of the local store either does not exist or
\* holds the complete artifact, also during a Create and after a failed one:
\* no partial file is sent to a client or taken for a finished download by the
\* probe.
C31_AtomicCreate ==
    /\ \A e \in Episodes : file[e].exists => file[e].bytes = FileBlocks
    /\ probed # Nothing => probed.bytes = FileBlocks
    /\ served # Nothing => served.bytes = FileBlocks

\* ------------------------------------------------------- downloader lock
\* YoutubeDl.updateLock: the self-update goroutine (Update), the feed builders
\* (PlaylistMetadata) and the downloads of the updates and of RetryEpisode
\* (Download) all run the one binary of the one YoutubeDl of the process.

MaxRequests == 4   \* invocations asked for in one behaviour

\* A Lock that does not wait for the holder.
LockUnguarded(c) ==
    /\ invoke[c] = "waiting"
    /\ invoke' = [invoke EXCEPT ![c] = "running"]
    /\ UNCHANGED <<pvars, svars, hvars, tvars, file, copy, probed, served, requests, quiet>>

\* The caller reaches dl.updateLock.Lock().
Request(c) ==
    /\ invoke[c] = "idle"
    /\ requests < MaxRequests
    /\ requests' = requests + 1
    /\ invoke' = [invoke EXCEPT ![c] = "waiting"]
    /\ UNCHANGED <<pvars, svars, hvars, tvars, file, copy, probed, served, quiet>>

\* Lock returns: nobody holds the mutex; the binary is started.
Lock(c) ==
    /\ invoke[c] = "waiting"
    /\ \A o \in Callers : invoke[o] # "running"
    /\ invoke' = [invoke EXCEPT ![c] = "running"]
    /\ UNCHANGED <<pvars, svars, hvars, tvars, file, copy, probed, served, requests, quiet>>

\* The binary has ended, by itself or at the timeout of exec: deferred Unlock.
Unlock(c) ==
    /\ invoke[c] = "running"
    /\ invoke' = [invoke EXCEPT ![c] = "idle"]
    /\ UNCHANGED <<pvars, svars, hvars, tvars, file, copy, probed, served, requests, quiet>>

NextLock ==
    \/ \E c \in Callers : Request(c)
    \/ \E c \in Callers : Lock(c)
    \/ \E c \in Callers : Unlock(c)

SpecLock == InitHist /\ [][NextLock]_vars

\* Every invocation ends (exec runs the binary under a timeout), and a
\* goroutine blocked in Lock is not passed over for ever: sync.Mutex hands the
\* mutex to the longest waiter once it has waited for 1 ms.
FairLock ==
    /\ SpecLock
    /\ \A c \in Callers : WF_vars(Unlock(c))
    /\ \A c \in Callers : SF_vars(Lock(c))

\* C32: at every moment at most one of self-update, download and playlist
\* metadata holds updateLock and runs the binary, so the self-update never runs
\* together with one of the others; and every caller waiting for the lock
\* eventually gets it.
C32_UpdateLock ==
    /\ [](Cardinality({c \in Callers : invoke[c] = "running"}) <= 1)
    /\ \A c \in Callers : (invoke[c] = "waiting") ~> (invoke[c] = "running")

\* The self-update runs the binary while a download and a metadata call wait.
C32_Witness ==
    /\ invoke["selfupdate"] = "running"
    /\ invoke["worker"] = "waiting"
    /\ invoke["metadata"] = "waiting"

====
